---- MODULE Spec2Model ----
(***************************************************************************)
(* State-machine model of the DAO governance coordinator                   *)
(* (src/agents/coordination_agent.py): the WorkflowOrchestrator maps and   *)
(* the coordinator_protocol message handlers that drive them.              *)
(*                                                                         *)
(* Numbers: confidence contributions are kept in tenths (0.8 is 8) and the *)
(* overall confidence, a mean over one to three contributions, in units of *)
(* 1/600 (0.7 is 420), so that every exact mean is an integer and a mean   *)
(* that double-precision division leaves just off a decision threshold is  *)
(* one unit away from it.                                                  *)
(***************************************************************************)
EXTENDS Integers, Sequences, FiniteSets, TLC

\* ------------------------------------------------------------------ bounds
\* Longest errors list explored; a handler that would append to a full list
\* is not taken.
MaxErrors == 2

\* The dispatch counters saturate at this value ("MaxSent or more").
MaxSent == 2

\* Longest user_list of a ProposalRequest explored.
MaxUsers == 5

\* ------------------------------------------------------------------ inputs
ProposalIds == {"prop_1"}

Stages == {"proposal_analysis", "sentiment_analysis", "execution_planning"}

\* Optional[Dict] slot that holds None.
NoData == [kind |-> "None"]

\* analysis_data built by handle_proposal_analysis_response: the keys the
\* synthesizer reads are compliance and risk_assessment.overall_risk.
ComplianceData ==
    [kind : {"compliance"}, compliance : {TRUE}, overall_risk : {"MEDIUM"}]
      \cup
    [kind : {"compliance"}, compliance : {FALSE}, overall_risk : {"HIGH"}]

\* sentiment_data built by handle_voter_sentiment_response: prediction,
\* confidence (tenths) and the number of reported risk_factors.
SentimentData ==
    [kind : {"sentiment"}, prediction : {"Pass"}, confidence : {9},
     risk_factors : {0}]
      \cup
    [kind : {"sentiment"}, prediction : {"Error"}, confidence : {0},
     risk_factors : {1}]

\* execution_data built by handle_execution_response: success and the
\* Optional safety_check, which is None, or a dict whose is_safe is
\* True ("safe") or False ("unsafe").
ExecutionData ==
    [kind : {"execution"}, success : BOOLEAN, safety_check : {"None", "safe", "unsafe"}]

StageData(stage) ==
    CASE stage = "proposal_analysis"  -> ComplianceData
      [] stage = "sentiment_analysis" -> SentimentData
      [] stage = "execution_planning" -> ExecutionData

\* str(e) of the exceptions the handlers catch.
AttributeError == "'NoneType' object has no attribute 'get'"

\* ------------------------------------------------------------------- state
VARIABLES
    workflows,          \* orchestrator.workflows: proposal_id -> WorkflowStatus
    analysis_results,   \* orchestrator.analysis_results: proposal_id -> ComprehensiveAnalysis
    pending_responses,  \* orchestrator.pending_responses: proposal_id -> stage -> bool
    dispatched,         \* requests and replies sent with ctx.send, counted per <<id, kind>>
    kg,                 \* knowledge_graph.kg of the voter agent
    db,                 \* the backend's database: members, proposals, votes
    suspended,          \* coordinator handlers awaiting a ctx.send: <<id, kind>> of the send
    last                \* the operation that produced the current state

vars == <<workflows, analysis_results, pending_responses, dispatched, kg, db, suspended, last>>

\* The tables after Base.metadata.create_all: no rows; `checked` holds the
\* vote requests that have passed the checks of cast_vote_on_proposal and
\* not yet committed.
EmptyDatabase ==
    [dao_members |-> << >>, proposals |-> {}, votes |-> {}, checked |-> {}]

SendKinds == {"analysis_request", "status_reply", "voter_request", "execution_request"}

\* --------------------------------------------------------------- the model
\* NewWorkflowStatus without the progress_percentage=10.0 argument: the
\* field keeps its class default of 0.0.
NewWorkflowStatusDefaultProgress ==
    [current_stage               |-> "proposal_analysis",
     analysis_complete           |-> FALSE,
     sentiment_analysis_complete |-> FALSE,
     execution_plan_ready        |-> FALSE,
     errors                      |-> << >>,
     warnings                    |-> << >>,
     progress_percentage         |-> 0]

\* WorkflowStatus(proposal_id, current_stage="proposal_analysis",
\* progress_percentage=10.0) with the field defaults of the class.
NewWorkflowStatus ==
    [current_stage               |-> "proposal_analysis",
     analysis_complete           |-> FALSE,
     sentiment_analysis_complete |-> FALSE,
     execution_plan_ready        |-> FALSE,
     errors                      |-> << >>,
     warnings                    |-> << >>,
     progress_percentage         |-> 10]

\* ComprehensiveAnalysis(final_recommendation="Analysis in progress...",
\* confidence_score=0.0, risk_assessment="Unknown").
NewComprehensiveAnalysis ==
    [proposal_analysis    |-> NoData,
     sentiment_prediction |-> NoData,
     execution_plan       |-> NoData,
     final_recommendation |-> "Analysis in progress...",
     confidence_score     |-> 0,
     risk_assessment      |-> "Unknown"]

NewPendingResponses == [s \in Stages |-> FALSE]

\* dict[key] = value
Put(f, k, v) == [x \in (DOMAIN f) \cup {k} |-> IF x = k THEN v ELSE f[x]]

\* The orchestrator's three maps as one value.
Orch(w, a, p) == [workflows |-> w, analysis_results |-> a, pending_responses |-> p]

\* start_workflow that rebuilds the three maps around the new entry instead
\* of adding to them: every other identifier is dropped.
start_workflow_replacing_maps(o, id) ==
    Orch(Put(<< >>, id, NewWorkflowStatus),
         Put(<< >>, id, NewComprehensiveAnalysis),
         Put(<< >>, id, NewPendingResponses))

\* WorkflowOrchestrator.start_workflow: the three maps after the call.
start_workflow(o, id) ==
    Orch(Put(o.workflows, id, NewWorkflowStatus),
         Put(o.analysis_results, id, NewComprehensiveAnalysis),
         Put(o.pending_responses, id, NewPendingResponses))

\* sum(confidence_scores)
RECURSIVE SumSeq(_)
SumSeq(q) == IF q = << >> THEN 0 ELSE Head(q) + SumSeq(Tail(q))

\* `if analysis.<slot>:` - a slot is truthy when it holds a (non-empty) dict.
Truthy(slot) == slot.kind # "None"

\* ConfidenceScores with the sentiment confidence taken as a percentage
\* rather than a fraction.
ConfidenceScoresPercentSentiment(an) ==
    (IF Truthy(an.proposal_analysis)
       THEN << IF an.proposal_analysis.compliance THEN 8 ELSE 2 >> ELSE << >>)
    \o (IF Truthy(an.sentiment_prediction)
       THEN << an.sentiment_prediction.confidence * 100 >> ELSE << >>)
    \o (IF Truthy(an.execution_plan)
       THEN << IF an.execution_plan.safety_check = "safe" THEN 7 ELSE 3 >> ELSE << >>)

\* confidence_scores as generate_final_recommendation appends them, in tenths.
ConfidenceScores(an) ==
    (IF Truthy(an.proposal_analysis)
       THEN << IF an.proposal_analysis.compliance THEN 8 ELSE 2 >> ELSE << >>)
    \o (IF Truthy(an.sentiment_prediction)
       THEN << an.sentiment_prediction.confidence >> ELSE << >>)
    \o (IF Truthy(an.execution_plan)
       THEN << IF an.execution_plan.safety_check = "safe" THEN 7 ELSE 3 >> ELSE << >>)

\* len(risk_factors) as generate_final_recommendation collects them.
RiskFactorCount(an) ==
    (IF Truthy(an.proposal_analysis)
       THEN (IF an.proposal_analysis.compliance THEN 0 ELSE 1)
            + (IF an.proposal_analysis.overall_risk = "HIGH" THEN 1 ELSE 0)
       ELSE 0)
    + (IF Truthy(an.sentiment_prediction)
       THEN (IF an.sentiment_prediction.prediction = "Fail" THEN 1 ELSE 0)
            + an.sentiment_prediction.risk_factors
       ELSE 0)
    + (IF Truthy(an.execution_plan) /\ an.execution_plan.safety_check # "safe"
       THEN 1 ELSE 0)

\* analysis.execution_plan.get("safety_check", {}) returns the stored None
\* when the reply carried no safety check (the key is always present), and
\* None.get("is_safe", False) raises AttributeError.
SafetyCheckRaises(an) ==
    Truthy(an.execution_plan) /\ an.execution_plan.safety_check = "None"

\* OverallConfidence with the number of stages as a fixed denominator
\* instead of len(confidence_scores).
OverallConfidenceFixedDenominator(scores) ==
    IF Len(scores) = 0 THEN 0 ELSE (SumSeq(scores) * 60) \div 3

\* Where sum(confidence_scores) / len(confidence_scores), evaluated in
\* double precision, lands relative to an exact mean of 0.3, 0.5 or 0.7:
\* (0.8 + 0.4 + 0.3) / 3 is 0.5000000000000001, (0.8 + 1.0 + 0.3) / 3 is
\* 0.7000000000000001, (0.2 + 0.4) / 2 and (0.2 + 0.4 + 0.3) / 3 are
\* 0.30000000000000004, and (0.8 + 0.6 + 0.7) / 3 is 0.6999999999999998.
FloatExcess(scores) ==
    IF scores \in {<<8, 4, 3>>, <<8, 10, 3>>, <<2, 4>>, <<2, 4, 3>>} THEN 1
    ELSE IF scores = <<8, 6, 7>> THEN -1
    ELSE 0

\* overall_confidence in units of 1/600: sum / len as the double division
\* yields it, or 0.0 for an empty list.
OverallConfidence(scores) ==
    IF Len(scores) = 0 THEN 0
    ELSE (SumSeq(scores) * 60) \div Len(scores) + FloatExcess(scores)

\* Recommendation with the first row's bound inclusive (>= 0.7).
RecommendationInclusiveBound(conf, risks) ==
    IF conf >= 420 /\ risks = 0
      THEN [final_recommendation |-> "APPROVE - High confidence, low risk",
            risk_assessment |-> "LOW"]
    ELSE IF conf > 300 /\ risks <= 1
      THEN [final_recommendation |-> "APPROVE WITH CONDITIONS - Moderate confidence",
            risk_assessment |-> "MEDIUM"]
    ELSE IF conf > 180
      THEN [final_recommendation |-> "DEFER - Requires additional review",
            risk_assessment |-> "MEDIUM"]
    ELSE [final_recommendation |-> "REJECT - Low confidence or high risk",
          risk_assessment |-> "HIGH"]

\* The decision table of generate_final_recommendation (0.7, 0.5 and 0.3 are
\* 420, 300 and 180).
Recommendation(conf, risks) ==
    IF conf > 420 /\ risks = 0
      THEN [final_recommendation |-> "APPROVE - High confidence, low risk",
            risk_assessment |-> "LOW"]
    ELSE IF conf > 300 /\ risks <= 1
      THEN [final_recommendation |-> "APPROVE WITH CONDITIONS - Moderate confidence",
            risk_assessment |-> "MEDIUM"]
    ELSE IF conf > 180
      THEN [final_recommendation |-> "DEFER - Requires additional review",
            risk_assessment |-> "MEDIUM"]
    ELSE [final_recommendation |-> "REJECT - Low confidence or high risk",
          risk_assessment |-> "HIGH"]

\* WorkflowOrchestrator.generate_final_recommendation: the maps after the
\* call and whether it raised (nothing is assigned before the raise).
generate_final_recommendation(o, id) ==
    IF id \notin DOMAIN o.analysis_results
      THEN [orch |-> o, raised |-> FALSE]
    ELSE LET an   == o.analysis_results[id]
             conf == OverallConfidence(ConfidenceScores(an))
             rec  == Recommendation(conf, RiskFactorCount(an))
         IN IF SafetyCheckRaises(an)
              THEN [orch |-> o, raised |-> TRUE]
              ELSE [orch |-> [o EXCEPT !.analysis_results[id] =
                                 [an EXCEPT !.final_recommendation = rec.final_recommendation,
                                            !.confidence_score = conf,
                                            !.risk_assessment = rec.risk_assessment]],
                    raised |-> FALSE]

\* complete_analysis_stage with a failure branch that escalates: a stage
\* reported with success=False also moves the workflow to an error stage
\* with progress 0. The success branches are those of the original.
complete_analysis_stage_escalating(o, id, stage, success, data) ==
    IF id \notin DOMAIN o.workflows \/ stage \notin Stages
      THEN [orch |-> o, raised |-> FALSE]
    ELSE LET flagged ==
               CASE stage = "proposal_analysis" ->
                      [o EXCEPT !.workflows[id].analysis_complete = success]
                 [] stage = "sentiment_analysis" ->
                      [o EXCEPT !.workflows[id].sentiment_analysis_complete = success]
                 [] stage = "execution_planning" ->
                      [o EXCEPT !.workflows[id].execution_plan_ready = success]
             advanced ==
               CASE stage = "proposal_analysis" ->
                      [flagged EXCEPT !.workflows[id].progress_percentage = 40,
                                      !.workflows[id].current_stage = "sentiment_analysis",
                                      !.analysis_results[id].proposal_analysis = data,
                                      !.pending_responses[id][stage] = TRUE]
                 [] stage = "sentiment_analysis" ->
                      [flagged EXCEPT !.workflows[id].progress_percentage = 70,
                                      !.workflows[id].current_stage = "execution_planning",
                                      !.analysis_results[id].sentiment_prediction = data,
                                      !.pending_responses[id][stage] = TRUE]
                 [] stage = "execution_planning" ->
                      [flagged EXCEPT !.workflows[id].progress_percentage = 100,
                                      !.workflows[id].current_stage = "completed",
                                      !.analysis_results[id].execution_plan = data,
                                      !.pending_responses[id][stage] = TRUE]
         IN IF ~success
              THEN [orch |-> [flagged EXCEPT !.workflows[id].current_stage = "error",
                                             !.workflows[id].progress_percentage = 0],
                    raised |-> FALSE]
            ELSE IF stage = "execution_planning"
              THEN generate_final_recommendation(advanced, id)
            ELSE [orch |-> advanced, raised |-> FALSE]

\* complete_analysis_stage with a wrong milestone: a successful sentiment
\* stage sets progress 60 instead of 70. Everything else is the original.
complete_analysis_stage_wrong_milestone(o, id, stage, success, data) ==
    IF id \notin DOMAIN o.workflows \/ stage \notin Stages
      THEN [orch |-> o, raised |-> FALSE]
    ELSE LET flagged ==
               CASE stage = "proposal_analysis" ->
                      [o EXCEPT !.workflows[id].analysis_complete = success]
                 [] stage = "sentiment_analysis" ->
                      [o EXCEPT !.workflows[id].sentiment_analysis_complete = success]
                 [] stage = "execution_planning" ->
                      [o EXCEPT !.workflows[id].execution_plan_ready = success]
             advanced ==
               CASE stage = "proposal_analysis" ->
                      [flagged EXCEPT !.workflows[id].progress_percentage = 40,
                                      !.workflows[id].current_stage = "sentiment_analysis",
                                      !.analysis_results[id].proposal_analysis = data,
                                      !.pending_responses[id][stage] = TRUE]
                 [] stage = "sentiment_analysis" ->
                      [flagged EXCEPT !.workflows[id].progress_percentage = 60,
                                      !.workflows[id].current_stage = "execution_planning",
                                      !.analysis_results[id].sentiment_prediction = data,
                                      !.pending_responses[id][stage] = TRUE]
                 [] stage = "execution_planning" ->
                      [flagged EXCEPT !.workflows[id].progress_percentage = 100,
                                      !.workflows[id].current_stage = "completed",
                                      !.analysis_results[id].execution_plan = data,
                                      !.pending_responses[id][stage] = TRUE]
         IN IF ~success
              THEN [orch |-> flagged, raised |-> FALSE]
            ELSE IF stage = "execution_planning"
              THEN generate_final_recommendation(advanced, id)
            ELSE [orch |-> advanced, raised |-> FALSE]

\* WorkflowOrchestrator.complete_analysis_stage: the maps after the call and
\* whether it raised. No branch looks at workflow.current_stage.
complete_analysis_stage(o, id, stage, success, data) ==
    IF id \notin DOMAIN o.workflows
      THEN [orch |-> o, raised |-> FALSE]
    ELSE IF stage = "proposal_analysis"
      THEN [orch |->
              IF success
                THEN [o EXCEPT !.workflows[id].analysis_complete = success,
                               !.workflows[id].progress_percentage = 40,
                               !.workflows[id].current_stage = "sentiment_analysis",
                               !.analysis_results[id].proposal_analysis = data,
                               !.pending_responses[id]["proposal_analysis"] = TRUE]
                ELSE [o EXCEPT !.workflows[id].analysis_complete = success],
            raised |-> FALSE]
    ELSE IF stage = "sentiment_analysis"
      THEN [orch |->
              IF success
                THEN [o EXCEPT !.workflows[id].sentiment_analysis_complete = success,
                               !.workflows[id].progress_percentage = 70,
                               !.workflows[id].current_stage = "execution_planning",
                               !.analysis_results[id].sentiment_prediction = data,
                               !.pending_responses[id]["sentiment_analysis"] = TRUE]
                ELSE [o EXCEPT !.workflows[id].sentiment_analysis_complete = success],
            raised |-> FALSE]
    ELSE IF stage = "execution_planning"
      THEN IF success
             THEN generate_final_recommendation(
                    [o EXCEPT !.workflows[id].execution_plan_ready = success,
                              !.workflows[id].progress_percentage = 100,
                              !.workflows[id].current_stage = "completed",
                              !.analysis_results[id].execution_plan = data,
                              !.pending_responses[id]["execution_planning"] = TRUE],
                    id)
             ELSE [orch |-> [o EXCEPT !.workflows[id].execution_plan_ready = success],
                   raised |-> FALSE]
    ELSE [orch |-> o, raised |-> FALSE]

\* ------------------------------------------- the voter agent's functions
\* (src/agents/voter_agent.py). Sentiment scores are kept in thirtieths
\* (0.5 is 15, 1/3 is 10), influence in tenths, the social influence score
\* in hundredths, total_score and a prediction's confidence in thousandths,
\* weighted_score and the threshold in ten-thousandths; the confidence of an
\* outcome is the pair of its numerator and denominator.

\* VoterKnowledgeGraph._initialize_sample_data; votes and sentiments are
\* keyed by <<user_id, proposal_id>>.
SampleVotes ==
    (<<"alice", "prop_001">> :> "For") @@ (<<"bob", "prop_001">> :> "Against")
    @@ (<<"charlie", "prop_001">> :> "For") @@ (<<"alice", "prop_002">> :> "For")
    @@ (<<"bob", "prop_002">> :> "For") @@ (<<"dave", "prop_001">> :> "Neutral")
    @@ (<<"eve", "prop_002">> :> "Against")

SampleFollows ==
    ("alice" :> <<"bob", "charlie">>) @@ ("bob" :> <<"charlie", "dave">>)
    @@ ("charlie" :> <<"alice">>) @@ ("dave" :> <<"alice", "bob">>)
    @@ ("eve" :> <<"alice">>)

SampleInfluence ==
    ("alice" :> 8) @@ ("bob" :> 6) @@ ("charlie" :> 4) @@ ("dave" :> 3) @@ ("eve" :> 5)

\* VoterKnowledgeGraph.__init__: the store after construction (the unused
\* proposal_topics and voting_patterns maps are left out).
SampleKnowledgeGraph ==
    [sentiments     |-> << >>,
     votes          |-> SampleVotes,
     follows        |-> SampleFollows,
     predictions    |-> << >>,
     user_influence |-> SampleInfluence]

\* kg["user_influence"].get(user_id, 0.2)
get_user_influence(k, user_id) ==
    IF user_id \in DOMAIN k.user_influence THEN k.user_influence[user_id] ELSE 2

\* kg["follows"].get(user_id, [])
get_social_connections(k, user_id) ==
    IF user_id \in DOMAIN k.follows THEN k.follows[user_id] ELSE << >>

\* 1 if connection_vote == "For" else -1 if connection_vote == "Against" else 0
VoteWeight(vote) == IF vote = "For" THEN 1 ELSE IF vote = "Against" THEN -1 ELSE 0

\* The loop over connections: the votes found on proposal_id, in order
\* (social_votes).
RECURSIVE SocialVotes(_, _, _)
SocialVotes(k, connections, proposal_id) ==
    IF connections = << >> THEN << >>
    ELSE LET key == <<Head(connections), proposal_id>>
         IN (IF key \in DOMAIN k.votes THEN << k.votes[key] >> ELSE << >>)
            \o SocialVotes(k, Tail(connections), proposal_id)

\* The same loop with the followed user's own influence left out of the
\* weight (vote_weight * 0.3).
RECURSIVE SocialInfluenceScoreUnweighted(_, _, _)
SocialInfluenceScoreUnweighted(k, connections, proposal_id) ==
    IF connections = << >> THEN 0
    ELSE LET key == <<Head(connections), proposal_id>>
         IN (IF key \in DOMAIN k.votes THEN VoteWeight(k.votes[key]) * 10 * 3 ELSE 0)
            + SocialInfluenceScoreUnweighted(k, Tail(connections), proposal_id)

\* The loop over connections: social_influence_score, in hundredths
\* (vote_weight * connection_influence * 0.3 for every connection that has
\* a vote on proposal_id).
RECURSIVE SocialInfluenceScore(_, _, _)
SocialInfluenceScore(k, connections, proposal_id) ==
    IF connections = << >> THEN 0
    ELSE LET key == <<Head(connections), proposal_id>>
         IN (IF key \in DOMAIN k.votes
               THEN VoteWeight(k.votes[key]) * get_user_influence(k, Head(connections)) * 3
               ELSE 0)
            + SocialInfluenceScore(k, Tail(connections), proposal_id)

Abs(x) == IF x < 0 THEN 0 - x ELSE x

Min(x, y) == IF x < y THEN x ELSE y

Max(x, y) == IF x > y THEN x ELSE y

\* sentiment_score * 0.6 + social_influence_score * 0.4, in thousandths.
TotalScore(sentiment_score, social_influence_score) ==
    20 * sentiment_score + 4 * social_influence_score

\* Stance with the bounds inclusive (>= 0.2, <= -0.2).
StanceInclusiveBound(total_score) ==
    IF total_score >= 200 THEN "For"
    ELSE IF total_score <= -200 THEN "Against"
    ELSE "Neutral"

\* The stance chain of predict_user_vote (0.2 is 200 thousandths).
Stance(total_score) ==
    IF total_score > 200 THEN "For"
    ELSE IF total_score < -200 THEN "Against"
    ELSE "Neutral"

\* PredictionConfidence without the cap at 1.0.
PredictionConfidenceUncapped(total_score, user_influence) ==
    Abs(total_score) + 20 * user_influence

\* min(abs(total_score) + user_influence * 0.2, 1.0), in thousandths.
PredictionConfidence(total_score, user_influence) ==
    Min(Abs(total_score) + 20 * user_influence, 1000)

\* VotingPredictor.predict_user_vote: the VotePrediction returned; the
\* reasoning is kept as the list of the parts it is joined from.
predict_user_vote(k, user_id, proposal_id) ==
    LET sentiment_key   == <<user_id, proposal_id>>
        has_sentiment   == sentiment_key \in DOMAIN k.sentiments
        sentiment_score == IF has_sentiment THEN k.sentiments[sentiment_key] ELSE 0
        user_influence  == get_user_influence(k, user_id)
        connections     == get_social_connections(k, user_id)
        social_votes    == SocialVotes(k, connections, proposal_id)
        total_score     == TotalScore(sentiment_score,
                                      SocialInfluenceScore(k, connections, proposal_id))
    IN [user_id     |-> user_id,
        proposal_id |-> proposal_id,
        stance      |-> Stance(total_score),
        confidence  |-> PredictionConfidence(total_score, user_influence),
        reasoning   |-> (IF has_sentiment THEN <<"Sentiment">> ELSE << >>)
                        \o (IF social_votes # << >> THEN <<"Social network">> ELSE << >>)
                        \o <<"User influence">>]

\* `for user_id in user_list: prediction = self.predict_user_vote(...)`:
\* the predictions list.
Predictions(k, proposal_id, user_list) ==
    [i \in 1 .. Len(user_list) |-> predict_user_vote(k, user_list[i], proposal_id)]

\* StorePredictions with the predictions map rebuilt from the listed users.
StorePredictionsRebuilt(k, proposal_id, user_list) ==
    LET listed == {<<user_list[i], proposal_id>> : i \in 1 .. Len(user_list)}
    IN [k EXCEPT !.predictions =
          [key \in listed |-> predict_user_vote(k, key[1], proposal_id)]]

\* kg["predictions"][(user_id, proposal_id)] = prediction for every listed
\* user (predict_user_vote does not read predictions, so a user listed
\* twice gets the same prediction both times).
StorePredictions(k, proposal_id, user_list) ==
    LET listed == {<<user_list[i], proposal_id>> : i \in 1 .. Len(user_list)}
    IN [k EXCEPT !.predictions =
          [key \in (DOMAIN k.predictions) \cup listed |->
             IF key \in listed
               THEN predict_user_vote(k, key[1], proposal_id)
               ELSE k.predictions[key]]]

\* vote_counts after the loop over the predictions.
VoteCounts(predictions) ==
    [stance \in {"For", "Against", "Neutral"} |->
       Cardinality({i \in 1 .. Len(predictions) :
                      IF stance = "Neutral"
                        THEN predictions[i].stance \notin {"For", "Against"}
                        ELSE predictions[i].stance = stance})]

\* weighted_score after the loop, in ten-thousandths: +confidence *
\* influence for a For prediction, -confidence * influence for Against.
RECURSIVE WeightedScore(_, _)
WeightedScore(k, predictions) ==
    IF predictions = << >> THEN 0
    ELSE LET pred        == Head(predictions)
             vote_weight == pred.confidence * get_user_influence(k, pred.user_id)
         IN (IF pred.stance = "For" THEN vote_weight
             ELSE IF pred.stance = "Against" THEN 0 - vote_weight
             ELSE 0)
            + WeightedScore(k, Tail(predictions))

\* sum(get_user_influence(uid) for uid in user_list), in tenths.
RECURSIVE TotalVotingPower(_, _)
TotalVotingPower(k, user_list) ==
    IF user_list = << >> THEN 0
    ELSE get_user_influence(k, Head(user_list)) + TotalVotingPower(k, Tail(user_list))

\* ConfidenceThreshold as half of the voting power.
ConfidenceThresholdHalf(total_voting_power) == 500 * total_voting_power

\* confidence_threshold = total_voting_power * 0.1, in ten-thousandths.
ConfidenceThreshold(total_voting_power) == 100 * total_voting_power

\* Outcome with the bounds inclusive (>=, <=).
OutcomeInclusiveBound(weighted_score, confidence_threshold) ==
    IF weighted_score >= confidence_threshold THEN "Pass"
    ELSE IF weighted_score <= 0 - confidence_threshold THEN "Fail"
    ELSE "Uncertain"

\* The outcome chain of calculate_voting_outcome.
Outcome(weighted_score, confidence_threshold) ==
    IF weighted_score > confidence_threshold THEN "Pass"
    ELSE IF weighted_score < 0 - confidence_threshold THEN "Fail"
    ELSE "Uncertain"

\* SortedByInfluence that puts a user before the users of equal influence
\* already placed (an unstable order).
RECURSIVE SortedByInfluenceUnstable(_, _)
SortedByInfluenceUnstable(k, user_list) ==
    IF user_list = << >> THEN << >>
    ELSE LET n      == Len(user_list)
             u      == user_list[n]
             before == SortedByInfluenceUnstable(k, SubSeq(user_list, 1, n - 1))
             ahead  == Cardinality({i \in 1 .. Len(before) :
                          get_user_influence(k, before[i]) > get_user_influence(k, u)})
         IN SubSeq(before, 1, ahead) \o <<u>> \o SubSeq(before, ahead + 1, Len(before))

\* sorted(user_list, key=get_user_influence, reverse=True): descending
\* influence, users of equal influence in their order in user_list (the
\* sort is stable, also with reverse=True).
RECURSIVE SortedByInfluence(_, _)
SortedByInfluence(k, user_list) ==
    IF user_list = << >> THEN << >>
    ELSE LET n      == Len(user_list)
             u      == user_list[n]
             before == SortedByInfluence(k, SubSeq(user_list, 1, n - 1))
             ahead  == Cardinality({i \in 1 .. Len(before) :
                          get_user_influence(k, before[i]) >= get_user_influence(k, u)})
         IN SubSeq(before, 1, ahead) \o <<u>> \o SubSeq(before, ahead + 1, Len(before))

\* sorted(...)[:3]
KeyInfluencers(k, user_list) ==
    SubSeq(SortedByInfluence(k, user_list), 1, Min(3, Len(user_list)))

\* RiskFactors decided as an if / elif chain: at most one factor.
RiskFactorsChained(vote_counts, n) ==
    IF 10 * vote_counts["Neutral"] > 3 * n THEN <<"High voter apathy">>
    ELSE IF Abs(vote_counts["For"] - vote_counts["Against"]) <= 2
      THEN <<"Very close margin">>
    ELSE IF n < 5 THEN <<"Small sample size">>
    ELSE << >>

\* risk_factors: three independent ifs, appended in this order
\* (vote_counts["Neutral"] > len(user_list) * 0.3 is 10 * Neutral > 3 * len).
RiskFactors(vote_counts, n) ==
    (IF 10 * vote_counts["Neutral"] > 3 * n THEN <<"High voter apathy">> ELSE << >>)
    \o (IF Abs(vote_counts["For"] - vote_counts["Against"]) <= 2
          THEN <<"Very close margin">> ELSE << >>)
    \o (IF n < 5 THEN <<"Small sample size">> ELSE << >>)

\* min(abs(weighted_score) / max(total_voting_power, 1), 1.0) as numerator
\* and denominator in ten-thousandths (total_voting_power is in tenths).
OutcomeConfidence(weighted_score, total_voting_power) ==
    LET den == 1000 * Max(total_voting_power, 10)
    IN [num |-> Min(Abs(weighted_score), den), den |-> den]

\* VotingPredictor.calculate_voting_outcome: the knowledge graph with the
\* predictions stored, and the ProposalResponse returned.
calculate_voting_outcome(k, proposal_id, user_list) ==
    LET predictions         == Predictions(k, proposal_id, user_list)
        weighted_score      == WeightedScore(k, predictions)
        vote_counts         == VoteCounts(predictions)
        total_voting_power  == TotalVotingPower(k, user_list)
    IN [kg |-> StorePredictions(k, proposal_id, user_list),
        response |->
          [proposal_id     |-> proposal_id,
           prediction      |-> Outcome(weighted_score,
                                       ConfidenceThreshold(total_voting_power)),
           confidence      |-> OutcomeConfidence(weighted_score, total_voting_power),
           vote_breakdown  |-> vote_counts,
           key_influencers |-> KeyInfluencers(k, user_list),
           risk_factors    |-> RiskFactors(vote_counts, Len(user_list))]]

\* ---------------------------------------------------------------- actions
TheOrch == Orch(workflows, analysis_results, pending_responses)

\* The three maps become those of o.
Store(o) ==
    /\ workflows' = o.workflows
    /\ analysis_results' = o.analysis_results
    /\ pending_responses' = o.pending_responses

\* await ctx.send(...): one more message of this kind sent for id.
Sent(d, id, kind) ==
    [d EXCEPT ![<<id, kind>>] = IF @ < MaxSent THEN @ + 1 ELSE MaxSent]

\* AppendError with one errors list shared by all WorkflowStatus objects
\* (a mutable default instead of default_factory=list): the error shows up
\* in every workflow.
AppendErrorShared(o, id, e) ==
    IF id \in DOMAIN o.workflows
      THEN [o EXCEPT !.workflows =
              [x \in DOMAIN o.workflows |->
                 [o.workflows[x] EXCEPT !.errors = Append(@, e)]]]
      ELSE o

\* `if msg.proposal_id in orchestrator.workflows:
\*      orchestrator.workflows[msg.proposal_id].errors.append(str(e))`
AppendError(o, id, e) ==
    IF id \in DOMAIN o.workflows
      THEN [o EXCEPT !.workflows[id].errors = Append(@, e)]
      ELSE o

\* The except branch can still append to the errors list of id.
RoomForError(o, id) ==
    id \in DOMAIN o.workflows => Len(o.workflows[id].errors) < MaxErrors

Op(name, id, stage, success, raised) ==
    [op |-> name, id |-> id, stage |-> stage, success |-> success, raised |-> raised]

Init ==
    /\ workflows = << >>
    /\ analysis_results = << >>
    /\ pending_responses = << >>
    /\ dispatched = [k \in ProposalIds \X SendKinds |-> 0]
    /\ last = Op("init", "none", "none", FALSE, FALSE)
    /\ kg = SampleKnowledgeGraph
    /\ db = EmptyDatabase
    /\ suspended = {}

\* handle_proposal_submission: start_workflow, then the analysis request
\* downstream and the status reply to the sender.
handle_proposal_submission(id) ==
    /\ Store(start_workflow(TheOrch, id))
    /\ dispatched' = Sent(Sent(dispatched, id, "analysis_request"), id, "status_reply")
    /\ last' = Op("handle_proposal_submission", id, "none", TRUE, FALSE)
    /\ UNCHANGED kg
    /\ UNCHANGED <<db, suspended>>

\* handle_proposal_analysis_response: the stage is always completed with
\* success=True, then the voter request is sent whether or not the id is
\* known.
handle_proposal_analysis_response(id, msg) ==
    LET r == complete_analysis_stage(TheOrch, id, "proposal_analysis", TRUE, msg)
    IN /\ Store(r.orch)
       /\ dispatched' = Sent(dispatched, id, "voter_request")
       /\ last' = Op("handle_proposal_analysis_response", id, "proposal_analysis",
                     TRUE, FALSE)
       /\ UNCHANGED kg
       /\ UNCHANGED <<db, suspended>>

\* handle_voter_sentiment_response that reports the voter agent's "Error"
\* reply as a failed stage (success = prediction != "Error").
handle_voter_sentiment_response_checking(id, msg) ==
    LET ok     == msg.prediction # "Error"
        r      == complete_analysis_stage(TheOrch, id, "sentiment_analysis", ok, msg)
        known  == id \in DOMAIN r.orch.analysis_results
        raised == known /\ ~Truthy(r.orch.analysis_results[id].proposal_analysis)
    IN /\ raised => RoomForError(r.orch, id)
       /\ Store(IF raised THEN AppendError(r.orch, id, AttributeError) ELSE r.orch)
       /\ dispatched' =
            IF known /\ ~raised THEN Sent(dispatched, id, "execution_request") ELSE dispatched
       /\ last' = Op("handle_voter_sentiment_response", id, "sentiment_analysis",
                     ok, raised)
       /\ UNCHANGED kg
       /\ UNCHANGED <<db, suspended>>

\* handle_voter_sentiment_response: the stage is always completed with
\* success=True; for a known id the execution request is built from the
\* stored proposal_analysis, and proposal_analysis.get(...) raises when
\* that slot is still None; the exception is caught and appended to the
\* errors list.
handle_voter_sentiment_response(id, msg) ==
    LET r      == complete_analysis_stage(TheOrch, id, "sentiment_analysis", TRUE, msg)
        known  == id \in DOMAIN r.orch.analysis_results
        raised == known /\ ~Truthy(r.orch.analysis_results[id].proposal_analysis)
    IN /\ raised => RoomForError(r.orch, id)
       /\ Store(IF raised THEN AppendError(r.orch, id, AttributeError) ELSE r.orch)
       /\ dispatched' =
            IF known /\ ~raised THEN Sent(dispatched, id, "execution_request") ELSE dispatched
       /\ last' = Op("handle_voter_sentiment_response", id, "sentiment_analysis",
                     TRUE, raised)
       /\ UNCHANGED kg
       /\ UNCHANGED <<db, suspended>>

\* handle_execution_response: the stage is completed with success =
\* msg.success; an exception of the synthesizer is caught and appended to
\* the errors list.
handle_execution_response(id, msg) ==
    LET r == complete_analysis_stage(TheOrch, id, "execution_planning", msg.success, msg)
    IN /\ r.raised => RoomForError(r.orch, id)
       /\ Store(IF r.raised THEN AppendError(r.orch, id, AttributeError) ELSE r.orch)
       /\ UNCHANGED dispatched
       /\ last' = Op("handle_execution_response", id, "execution_planning",
                     msg.success, r.raised)
       /\ UNCHANGED kg
       /\ UNCHANGED <<db, suspended>>

Next ==
    \/ \E id \in ProposalIds : handle_proposal_submission(id)
    \/ \E id \in ProposalIds, msg \in ComplianceData :
          handle_proposal_analysis_response(id, msg)
    \/ \E id \in ProposalIds, msg \in SentimentData :
          handle_voter_sentiment_response(id, msg)
    \/ \E id \in ProposalIds, msg \in ExecutionData :
          handle_execution_response(id, msg)

Spec == Init /\ [][Next]_vars

\* Direct calls of the orchestrator's methods, as src/agents/test.py and
\* handle_chat_message make them.
call_start_workflow(id) ==
    /\ Store(start_workflow(TheOrch, id))
    /\ UNCHANGED dispatched
    /\ last' = Op("start_workflow", id, "none", TRUE, FALSE)
    /\ UNCHANGED kg
    /\ UNCHANGED <<db, suspended>>

ApiStages == Stages \cup {"unknown_stage"}

\* The payloads a caller passes for a stage; an execution payload carries
\* the success value it is reported with.
ApiData(stage, success) ==
    IF stage = "execution_planning"
      THEN {d \in ExecutionData : d.success = success}
    ELSE IF stage \in Stages THEN StageData(stage)
    ELSE {NoData}

\* The ids a caller completes stages for: prop_never is never started.
ApiIds == ProposalIds \cup {"prop_never"}

\* call_complete_analysis_stage that starts the workflow of an unknown id
\* first.
call_complete_analysis_stage_starting(id, stage, success, data) ==
    LET o == IF id \in DOMAIN workflows THEN TheOrch ELSE start_workflow(TheOrch, id)
        r == complete_analysis_stage(o, id, stage, success, data)
    IN /\ Store(r.orch)
       /\ UNCHANGED dispatched
       /\ last' = Op("complete_analysis_stage", id, stage, success, r.raised)
       /\ UNCHANGED kg
       /\ UNCHANGED <<db, suspended>>

call_complete_analysis_stage(id, stage, success, data) ==
    LET r == complete_analysis_stage(TheOrch, id, stage, success, data)
    IN /\ Store(r.orch)
       /\ UNCHANGED dispatched
       /\ last' = Op("complete_analysis_stage", id, stage, success, r.raised)
       /\ UNCHANGED kg
       /\ UNCHANGED <<db, suspended>>

NextApi ==
    \/ \E id \in ProposalIds : call_start_workflow(id)
    \/ \E id \in ApiIds, stage \in ApiStages, success \in BOOLEAN :
         \E data \in ApiData(stage, success) :
            call_complete_analysis_stage(id, stage, success, data)

SpecApi == Init /\ [][NextApi]_vars

\* ------------------------------------------------------------- properties
\* The analysis slot a stage's payload is stored in.
SlotOf(an, stage) ==
    CASE stage = "proposal_analysis"  -> an.proposal_analysis
      [] stage = "sentiment_analysis" -> an.sentiment_prediction
      [] stage = "execution_planning" -> an.execution_plan

Flags(w) ==
    <<w.analysis_complete, w.sentiment_analysis_complete, w.execution_plan_ready>>

\* The step just taken is a stage completion for id.
CompletionStep(id) == last'.id = id /\ last'.stage \in Stages

\* C1: a successful stage completion that repeats one already applied to
\* the workflow (the stage is marked done and the reply carries the payload
\* already stored) changes neither current_stage, progress_percentage, the
\* completion flags nor the analysis record.
C1_CompleteStageIdempotent ==
    [][\A id \in DOMAIN workflows :
          ( /\ CompletionStep(id)
            /\ last'.success
            /\ pending_responses[id][last'.stage]
            /\ SlotOf(analysis_results'[id], last'.stage)
                 = SlotOf(analysis_results[id], last'.stage) )
          => /\ workflows'[id].current_stage = workflows[id].current_stage
             /\ workflows'[id].progress_percentage = workflows[id].progress_percentage
             /\ Flags(workflows'[id]) = Flags(workflows[id])
             /\ analysis_results'[id] = analysis_results[id]]_vars

\* C2: the progress_percentage stored for a workflow identifier never
\* decreases from one state to the next.
C2_ProgressNeverDecreases ==
    [][\A id \in DOMAIN workflows :
          workflows'[id].progress_percentage >= workflows[id].progress_percentage]_vars

StageSuccessor ==
    {<<"proposal_analysis", "sentiment_analysis">>,
     <<"sentiment_analysis", "execution_planning">>,
     <<"execution_planning", "completed">>}

\* C3: current_stage only moves one step along proposal_analysis ->
\* sentiment_analysis -> execution_planning -> completed, and a completion
\* event for a stage other than the current one does not advance it.
C3_StagesNeverSkipped ==
    [][\A id \in DOMAIN workflows :
          /\ \/ workflows'[id].current_stage = workflows[id].current_stage
             \/ <<workflows[id].current_stage, workflows'[id].current_stage>>
                   \in StageSuccessor
          /\ (CompletionStep(id) /\ last'.stage # workflows[id].current_stage)
                => workflows'[id].current_stage = workflows[id].current_stage]_vars

\* C4: an analysis whose final_recommendation is no longer the placeholder
\* has all three result slots populated.
C4_FinalisedOnlyWhenAllSlotsFilled ==
    \A id \in DOMAIN analysis_results :
        analysis_results[id].final_recommendation # "Analysis in progress..."
          => /\ Truthy(analysis_results[id].proposal_analysis)
             /\ Truthy(analysis_results[id].sentiment_prediction)
             /\ Truthy(analysis_results[id].execution_plan)

\* C5: a submission for an identifier whose workflow is active (not
\* completed) leaves that workflow and its analysis record as they were.
C5_ResubmissionDoesNotOverwrite ==
    [][\A id \in DOMAIN workflows :
          ( /\ last'.op = "handle_proposal_submission"
            /\ last'.id = id
            /\ workflows[id].current_stage # "completed" )
          => /\ workflows'[id] = workflows[id]
             /\ analysis_results'[id] = analysis_results[id]]_vars

\* C6: after handle_execution_response has processed a reply with
\* success=false for a known workflow, the errors list of the workflow is
\* one element longer.
C6_FailureAppendsError ==
    [][\A id \in DOMAIN workflows :
          ( /\ last'.op = "handle_execution_response"
            /\ last'.id = id
            /\ ~last'.success )
          => Len(workflows'[id].errors) = Len(workflows[id].errors) + 1]_vars

\* C7: a stage completion reported with success=false leaves current_stage,
\* progress_percentage, the three slots, final_recommendation,
\* confidence_score and risk_assessment as they were, and the workflow is
\* not moved to an error stage.
C7_FailedCompletionKeepsStage ==
    [][\A id \in DOMAIN workflows :
          (CompletionStep(id) /\ ~last'.success)
          => /\ workflows'[id].current_stage = workflows[id].current_stage
             /\ workflows'[id].progress_percentage = workflows[id].progress_percentage
             /\ analysis_results'[id] = analysis_results[id]
             /\ workflows'[id].current_stage
                  \in {"proposal_analysis", "sentiment_analysis",
                       "execution_planning", "completed"}]_vars

\* A failed completion has just been applied to a workflow that is past its
\* first stage and has stored a payload.
C7_Witness ==
    /\ last.op = "complete_analysis_stage"
    /\ last.stage = "sentiment_analysis"
    /\ ~last.success
    /\ last.id \in DOMAIN workflows
    /\ workflows[last.id].current_stage = "sentiment_analysis"
    /\ workflows[last.id].progress_percentage = 40
    /\ Truthy(analysis_results[last.id].proposal_analysis)
    /\ ~workflows[last.id].sentiment_analysis_complete

\* C8: once a workflow is completed with progress 100, no stage-completion
\* event for its id changes current_stage, progress_percentage or the
\* completion flags.
C8_CompletedIsTerminal ==
    [][\A id \in DOMAIN workflows :
          ( /\ workflows[id].current_stage = "completed"
            /\ workflows[id].progress_percentage = 100
            /\ CompletionStep(id) )
          => /\ workflows'[id].current_stage = workflows[id].current_stage
             /\ workflows'[id].progress_percentage = workflows[id].progress_percentage
             /\ Flags(workflows'[id]) = Flags(workflows[id])]_vars

DecisionLabels ==
    {"APPROVE - High confidence, low risk",
     "APPROVE WITH CONDITIONS - Moderate confidence",
     "DEFER - Requires additional review",
     "REJECT - Low confidence or high risk"}

\* C9: a workflow in stage completed has a finalised analysis: its
\* final_recommendation is one of the four decision labels and its
\* risk_assessment is LOW, MEDIUM or HIGH.
C9_CompletedIsFinalised ==
    \A id \in DOMAIN workflows :
        workflows[id].current_stage = "completed"
          => /\ analysis_results[id].final_recommendation \in DecisionLabels
             /\ analysis_results[id].risk_assessment \in {"LOW", "MEDIUM", "HIGH"}

\* C10: start_workflow, called directly or by the submission handler,
\* leaves the identifier with a workflow in proposal_analysis at progress 10,
\* no completion flag set and no errors or warnings, and an analysis record
\* with three empty slots, confidence 0.0 and risk Unknown.
C10_StartCreatesFreshWorkflow ==
    [][last'.op \in {"start_workflow", "handle_proposal_submission"}
          => /\ last'.id \in DOMAIN workflows'
             /\ last'.id \in DOMAIN analysis_results'
             /\ workflows'[last'.id].current_stage = "proposal_analysis"
             /\ workflows'[last'.id].progress_percentage = 10
             /\ Flags(workflows'[last'.id]) = <<FALSE, FALSE, FALSE>>
             /\ workflows'[last'.id].errors = << >>
             /\ workflows'[last'.id].warnings = << >>
             /\ ~Truthy(analysis_results'[last'.id].proposal_analysis)
             /\ ~Truthy(analysis_results'[last'.id].sentiment_prediction)
             /\ ~Truthy(analysis_results'[last'.id].execution_plan)
             /\ analysis_results'[last'.id].confidence_score = 0
             /\ analysis_results'[last'.id].risk_assessment = "Unknown"]_vars

\* start_workflow has just been called for an identifier.
C10_Witness ==
    /\ last.op = "start_workflow"
    /\ last.id \in DOMAIN workflows
    /\ workflows[last.id].current_stage = "proposal_analysis"
    /\ workflows[last.id].progress_percentage = 10

\* The stage and progress of a workflow as one value.
StageProgress(w) == <<w.current_stage, w.progress_percentage>>

\* The steps of a workflow whose replies arrive in pipeline order.
InOrderSteps ==
    {<< <<"proposal_analysis", 10>>,  <<"sentiment_analysis", 40>> >>,
     << <<"sentiment_analysis", 40>>, <<"execution_planning", 70>> >>,
     << <<"execution_planning", 70>>, <<"completed", 100>> >>}

\* C11: a submission puts the workflow at proposal_analysis/10, and every
\* successful reply for the stage the workflow is in takes it exactly one
\* step along (proposal_analysis,10) -> (sentiment_analysis,40) ->
\* (execution_planning,70) -> (completed,100): replies that arrive once
\* each and in order show progress 10, 40, 70, 100.
C11_InOrderProgressSequence ==
    [][\A id \in ProposalIds :
          /\ (last'.op = "handle_proposal_submission" /\ last'.id = id)
                => StageProgress(workflows'[id]) = <<"proposal_analysis", 10>>
          /\ ( /\ id \in DOMAIN workflows
               /\ CompletionStep(id)
               /\ last'.success
               /\ last'.stage = workflows[id].current_stage )
                => <<StageProgress(workflows[id]), StageProgress(workflows'[id])>>
                      \in InOrderSteps]_vars

\* One submission, then one reply per stage in order, all successful: the
\* execution reply has just completed the workflow.
C11_Witness ==
    /\ last.op = "handle_execution_response"
    /\ last.success
    /\ last.id \in DOMAIN workflows
    /\ StageProgress(workflows[last.id]) = <<"completed", 100>>
    /\ Flags(workflows[last.id]) = <<TRUE, TRUE, TRUE>>
    /\ workflows[last.id].errors = << >>
    /\ dispatched[<<last.id, "analysis_request">>] = 1
    /\ dispatched[<<last.id, "voter_request">>] = 1
    /\ dispatched[<<last.id, "execution_request">>] = 1

\* C12: a successful reply for a stage that is already completed sends no
\* further downstream request: the duplicate compliance reply sends no
\* second voter request, the duplicate sentiment reply no second execution
\* request.
C12_DuplicateDoesNotRedispatch ==
    [][\A id \in DOMAIN workflows :
          /\ ( /\ last'.op = "handle_proposal_analysis_response"
               /\ last'.id = id
               /\ pending_responses[id]["proposal_analysis"] )
                => dispatched'[<<id, "voter_request">>] = dispatched[<<id, "voter_request">>]
          /\ ( /\ last'.op = "handle_voter_sentiment_response"
               /\ last'.id = id
               /\ pending_responses[id]["sentiment_analysis"] )
                => dispatched'[<<id, "execution_request">>]
                     = dispatched[<<id, "execution_request">>]]_vars

\* ------------------------------------------------- the answered pipeline
\* The handlers driven by an environment in which each identifier is
\* submitted once and every dispatched request is answered once, with a
\* successful reply.
LiveIds == {"prop_1", "prop_2"}

InitLive ==
    /\ workflows = << >>
    /\ analysis_results = << >>
    /\ pending_responses = << >>
    /\ dispatched = [k \in LiveIds \X SendKinds |-> 0]
    /\ last = Op("init", "none", "none", FALSE, FALSE)
    /\ kg = SampleKnowledgeGraph
    /\ db = EmptyDatabase
    /\ suspended = {}

\* The request of this kind was sent for id and its stage has no reply yet.
Unanswered(id, kind, stage) ==
    /\ id \in DOMAIN workflows
    /\ dispatched[<<id, kind>>] > 0
    /\ ~pending_responses[id][stage]

submit_once(id) ==
    /\ id \notin DOMAIN workflows
    /\ handle_proposal_submission(id)

deliver_analysis_reply(id) ==
    /\ Unanswered(id, "analysis_request", "proposal_analysis")
    /\ \E msg \in ComplianceData : handle_proposal_analysis_response(id, msg)

deliver_sentiment_reply(id) ==
    /\ Unanswered(id, "voter_request", "sentiment_analysis")
    /\ \E msg \in SentimentData : handle_voter_sentiment_response(id, msg)

deliver_execution_reply(id) ==
    /\ Unanswered(id, "execution_request", "execution_planning")
    /\ \E msg \in ExecutionData : msg.success /\ handle_execution_response(id, msg)

NextLive ==
    \/ \E id \in LiveIds : submit_once(id)
    \/ \E id \in LiveIds : deliver_analysis_reply(id)
    \/ \E id \in LiveIds : deliver_sentiment_reply(id)
    \/ \E id \in LiveIds : deliver_execution_reply(id)

\* Every reply that is in flight is eventually handled.
SpecLive ==
    /\ InitLive
    /\ [][NextLive]_vars
    /\ \A id \in LiveIds :
          /\ WF_vars(deliver_analysis_reply(id))
          /\ WF_vars(deliver_sentiment_reply(id))
          /\ WF_vars(deliver_execution_reply(id))

\* C13: when every dispatched request is answered successfully and every
\* reply is handled, each started workflow eventually is completed at
\* progress 100 with a finalised recommendation.
C13_PipelineCompletes ==
    \A id \in LiveIds :
        (id \in DOMAIN workflows)
          ~> ( /\ id \in DOMAIN workflows
               /\ StageProgress(workflows[id]) = <<"completed", 100>>
               /\ analysis_results[id].final_recommendation \in DecisionLabels )

\* q is an initial segment of r.
IsPrefix(q, r) == Len(q) <= Len(r) /\ SubSeq(r, 1, Len(q)) = q

\* C14: the errors list stored for an identifier only grows: every step
\* keeps the errors recorded so far, in order, and may append to them.
C14_ErrorsOnlyGrow ==
    [][\A id \in DOMAIN workflows :
          /\ id \in DOMAIN workflows'
          /\ IsPrefix(workflows[id].errors, workflows'[id].errors)]_vars

\* ------------------------------------------------------- two identifiers
\* The handlers over two identifiers. prop_1 receives every message with
\* one payload per outcome; prop_2 receives submissions and sentiment
\* replies, which includes the handler exception of a sentiment reply that
\* finds no stored proposal analysis.
IsoCompliance == {d \in ComplianceData : d.compliance}

IsoSentiment == {d \in SentimentData : d.prediction = "Pass"}

IsoExecution == {d \in ExecutionData : d.safety_check # "unsafe"}

IsoFullIds == {"prop_1"}

NextIso ==
    \/ \E id \in LiveIds : handle_proposal_submission(id)
    \/ \E id \in IsoFullIds, msg \in IsoCompliance :
          handle_proposal_analysis_response(id, msg)
    \/ \E id \in LiveIds, msg \in IsoSentiment :
          handle_voter_sentiment_response(id, msg)
    \/ \E id \in IsoFullIds, msg \in IsoExecution :
          handle_execution_response(id, msg)

SpecIso == InitLive /\ [][NextIso]_vars

\* C15: a handler run for identifier a leaves the workflow record and the
\* analysis record of every other identifier b as they were, and creates
\* none for b.
C15_FaultIsolation ==
    [][\A a \in LiveIds, b \in LiveIds :
          (a # b /\ last'.id = a)
          => IF b \in DOMAIN workflows
               THEN /\ b \in DOMAIN workflows'
                    /\ workflows'[b] = workflows[b]
                    /\ analysis_results'[b] = analysis_results[b]
               ELSE /\ b \notin DOMAIN workflows'
                    /\ b \notin DOMAIN analysis_results']_vars

\* A handler has just caught an exception for prop_1 while prop_2 holds a
\* workflow that advanced and recorded an error of its own.
C15_Witness ==
    /\ last.id = "prop_1"
    /\ last.raised
    /\ "prop_2" \in DOMAIN workflows
    /\ workflows["prop_2"].current_stage = "execution_planning"
    /\ Len(workflows["prop_2"].errors) = 1
    /\ Len(workflows["prop_1"].errors) = 2

WorkflowStages ==
    {"proposal_analysis", "sentiment_analysis", "execution_planning", "completed"}

\* C16: every stored workflow is in one of the four pipeline stages; no
\* stage failure or handler exception stores an error stage.
C16_NoStoredFailureState ==
    \A id \in DOMAIN workflows : workflows[id].current_stage \in WorkflowStages

\* A failed execution reply has just been handled for a workflow that
\* already recorded a handler exception.
C16_Witness ==
    /\ last.op = "handle_execution_response"
    /\ ~last.success
    /\ last.id \in DOMAIN workflows
    /\ workflows[last.id].errors # << >>
    /\ ~workflows[last.id].execution_plan_ready

\* C19: an identifier that has a workflow keeps it in every later state,
\* and orchestrator.workflows and orchestrator.analysis_results have the
\* same keys.
C19_WorkflowsNeverDeleted ==
    [][/\ DOMAIN workflows \subseteq DOMAIN workflows'
       /\ DOMAIN analysis_results \subseteq DOMAIN analysis_results'
       /\ DOMAIN workflows = DOMAIN analysis_results
       /\ DOMAIN workflows' = DOMAIN analysis_results']_vars

\* Both identifiers are stored, one completed, and the other has just been
\* submitted again.
C19_Witness ==
    /\ DOMAIN workflows = LiveIds
    /\ DOMAIN analysis_results = LiveIds
    /\ workflows["prop_1"].current_stage = "completed"
    /\ last.op = "handle_proposal_submission"
    /\ last.id = "prop_2"

\* ----------------------------------------------------------------- queries
\* Identifiers a query can name: a submitted one and one never submitted.
QueryIds == ProposalIds \cup {"prop_unknown"}

\* msg.proposal_id of a UserQuery is Optional.
NoProposalId == "None"

\* The query texts explored, each as the set of the keywords "status",
\* "recommendation" and "summary" that msg.query.lower() contains.
QueryTexts == {{"status"}, {"recommendation"}, {"summary"}, {"status", "summary"}, {}}

\* A query step: the operation, the identifier it names and the reply that
\* was sent to the sender.
QueryOp(name, id, reply) ==
    [op |-> name, id |-> id, stage |-> "none", success |-> TRUE, raised |-> FALSE,
     reply |-> reply]

\* ComprehensiveAnalysis(final_recommendation="Analysis not yet available",
\* confidence_score=0.0, risk_assessment="Unknown").
EmptyAnalysis ==
    [proposal_analysis    |-> NoData,
     sentiment_prediction |-> NoData,
     execution_plan       |-> NoData,
     final_recommendation |-> "Analysis not yet available",
     confidence_score     |-> 0,
     risk_assessment      |-> "Unknown"]

\* handle_status_request that registers the placeholder it builds for an
\* unknown id (analysis_results.setdefault) before sending it.
handle_status_request_storing(id) ==
    /\ workflows' = workflows
    /\ analysis_results' =
         IF id \in DOMAIN analysis_results
           THEN analysis_results
           ELSE Put(analysis_results, id, EmptyAnalysis)
    /\ pending_responses' = pending_responses
    /\ UNCHANGED dispatched
    /\ last' = QueryOp("handle_status_request", id,
                       IF id \in DOMAIN analysis_results
                         THEN analysis_results[id] ELSE EmptyAnalysis)
    /\ UNCHANGED kg
    /\ UNCHANGED <<db, suspended>>

\* handle_status_request: the stored analysis, or a placeholder for an
\* unknown id, is sent to the sender; nothing is stored.
handle_status_request(id) ==
    /\ UNCHANGED <<workflows, analysis_results, pending_responses, dispatched>>
    /\ last' = QueryOp("handle_status_request", id,
                       IF id \in DOMAIN analysis_results
                         THEN analysis_results[id] ELSE EmptyAnalysis)
    /\ UNCHANGED kg
    /\ UNCHANGED <<db, suspended>>

\* len([w for w in workflows.values() if w.progress_percentage == 100.0])
CompletedWorkflows(w) == Cardinality({x \in DOMAIN w : w[x].progress_percentage = 100})

\* The QueryResponse of handle_user_query: the query it echoes, which
\* branch answered, the confidence (units of 1/600) and the data_sources; the
\* summary carries its counts.
QueryReply(w, a, text, pid) ==
    IF "status" \in text /\ pid # NoProposalId
      THEN IF pid \in DOMAIN w
             THEN [query |-> text, answer |-> "status", confidence |-> 540,
                   data_sources |-> <<"workflow_tracker">>,
                   current_stage |-> w[pid].current_stage,
                   progress_percentage |-> w[pid].progress_percentage]
             ELSE [query |-> text, answer |-> "No workflow found", confidence |-> 480,
                   data_sources |-> << >>]
    ELSE IF "recommendation" \in text /\ pid # NoProposalId
      THEN IF pid \in DOMAIN a
             THEN [query |-> text, answer |-> "recommendation",
                   confidence |-> a[pid].confidence_score,
                   data_sources |-> <<"comprehensive_analysis">>,
                   final_recommendation |-> a[pid].final_recommendation]
             ELSE [query |-> text, answer |-> "Analysis not complete", confidence |-> 180,
                   data_sources |-> << >>]
    ELSE IF "summary" \in text
      THEN [query |-> text, answer |-> "summary", confidence |-> 540,
            data_sources |-> <<"workflow_tracker">>,
            total_proposals |-> Cardinality(DOMAIN w),
            completed_workflows |-> CompletedWorkflows(w)]
    ELSE [query |-> text, answer |-> "help", confidence |-> 420, data_sources |-> << >>]

\* handle_user_query whose status branch reads the workflow through a
\* defaulting lookup (workflows.setdefault) and so creates an entry for an
\* unknown id.
handle_user_query_creating(text, pid) ==
    /\ workflows' =
         IF "status" \in text /\ pid # NoProposalId /\ pid \notin DOMAIN workflows
           THEN Put(workflows, pid, NewWorkflowStatus)
           ELSE workflows
    /\ UNCHANGED <<analysis_results, pending_responses, dispatched>>
    /\ last' = QueryOp("handle_user_query", pid,
                       QueryReply(workflows, analysis_results, text, pid))
    /\ UNCHANGED kg
    /\ UNCHANGED <<db, suspended>>

\* handle_user_query: the reply is computed from the maps and sent to the
\* sender; nothing is stored.
handle_user_query(text, pid) ==
    /\ UNCHANGED <<workflows, analysis_results, pending_responses, dispatched>>
    /\ last' = QueryOp("handle_user_query", pid,
                       QueryReply(workflows, analysis_results, text, pid))
    /\ UNCHANGED kg
    /\ UNCHANGED <<db, suspended>>

\* The coordinator's handlers with one payload per outcome, and the two
\* query handlers.
NextQuery ==
    \/ \E id \in ProposalIds : handle_proposal_submission(id)
    \/ \E id \in ProposalIds, msg \in IsoCompliance :
          handle_proposal_analysis_response(id, msg)
    \/ \E id \in ProposalIds, msg \in IsoSentiment :
          handle_voter_sentiment_response(id, msg)
    \/ \E id \in ProposalIds, msg \in IsoExecution :
          handle_execution_response(id, msg)
    \/ \E id \in QueryIds : handle_status_request(id)
    \/ \E text \in QueryTexts, pid \in QueryIds \cup {NoProposalId} :
          handle_user_query(text, pid)

SpecQuery == Init /\ [][NextQuery]_vars

\* C17: a status request for an id without analysis is answered, without an
\* exception, by an analysis with confidence 0.0, risk Unknown and empty
\* slots, and the id is afterwards in neither map.
C17_UnknownStatusLookup ==
    [][(last'.op = "handle_status_request" /\ last'.id \notin DOMAIN analysis_results)
          => /\ ~last'.raised
             /\ last'.reply.confidence_score = 0
             /\ last'.reply.risk_assessment = "Unknown"
             /\ ~Truthy(last'.reply.proposal_analysis)
             /\ ~Truthy(last'.reply.sentiment_prediction)
             /\ ~Truthy(last'.reply.execution_plan)
             /\ last'.id \notin DOMAIN workflows'
             /\ last'.id \notin DOMAIN analysis_results']_vars

\* A status request for the id that was never submitted has just been
\* answered while another workflow is stored.
C17_Witness ==
    /\ last.op = "handle_status_request"
    /\ last.id = "prop_unknown"
    /\ last.id \notin DOMAIN analysis_results
    /\ DOMAIN workflows # {}
    /\ last.reply.final_recommendation = "Analysis not yet available"

\* C18: handle_user_query and handle_status_request leave workflows,
\* analysis_results and pending_responses as they were, and a status query
\* for an unknown id is answered with "No workflow found".
C18_QueriesSideEffectFree ==
    [][last'.op \in {"handle_user_query", "handle_status_request"}
          => /\ workflows' = workflows
             /\ analysis_results' = analysis_results
             /\ pending_responses' = pending_responses
             /\ ( /\ last'.op = "handle_user_query"
                  /\ "status" \in last'.reply.query
                  /\ last'.id \in QueryIds
                  /\ last'.id \notin DOMAIN workflows )
                  => last'.reply.answer = "No workflow found"]_vars

\* A status query for the unknown id has just been answered "not found"
\* while a completed workflow is stored.
C18_Witness ==
    /\ last.op = "handle_user_query"
    /\ last.id = "prop_unknown"
    /\ last.reply.answer = "No workflow found"
    /\ \E id \in DOMAIN workflows : workflows[id].current_stage = "completed"

\* ------------------------------------------------------- the synthesizer
\* generate_final_recommendation applied to analysis records with every
\* combination of present and absent stage results.
SynthConfidences == 0 .. 10

SynthCompliance ==
    [kind : {"compliance"}, compliance : BOOLEAN, overall_risk : {"LOW", "MEDIUM", "HIGH"}]

SynthSentiment ==
    [kind : {"sentiment"}, prediction : {"Pass", "Fail", "Uncertain"},
     confidence : SynthConfidences, risk_factors : {0, 1, 2}]

SynthExecution ==
    [kind : {"execution"}, success : {TRUE}, safety_check : {"None", "safe", "unsafe"}]

SynthInputs ==
    {[NewComprehensiveAnalysis EXCEPT !.proposal_analysis = pa,
                                      !.sentiment_prediction = sp,
                                      !.execution_plan = ep] :
        pa \in SynthCompliance \cup {NoData},
        sp \in SynthSentiment \cup {NoData},
        ep \in SynthExecution \cup {NoData}}

InitSynth ==
    /\ workflows \in {Put(<< >>, id, NewWorkflowStatus) : id \in ProposalIds}
    /\ analysis_results \in
         {Put(<< >>, id, an) : id \in DOMAIN workflows, an \in SynthInputs}
    /\ pending_responses \in
         {Put(<< >>, id, NewPendingResponses) : id \in DOMAIN workflows}
    /\ dispatched = [k \in ProposalIds \X SendKinds |-> 0]
    /\ last = Op("init", "none", "none", FALSE, FALSE)
    /\ kg = SampleKnowledgeGraph
    /\ db = EmptyDatabase
    /\ suspended = {}

call_generate_final_recommendation(id) ==
    LET r == generate_final_recommendation(TheOrch, id)
    IN /\ last.op = "init"
       /\ Store(r.orch)
       /\ UNCHANGED dispatched
       /\ last' = Op("generate_final_recommendation", id, "none", TRUE, r.raised)
       /\ UNCHANGED kg
       /\ UNCHANGED <<db, suspended>>

NextSynth == \E id \in ProposalIds : call_generate_final_recommendation(id)

SpecSynth == InitSynth /\ [][NextSynth]_vars

\* The value a stage result contributes, in tenths, and 0 when absent.
Contribution(slot) ==
    CASE slot.kind = "None"       -> 0
      [] slot.kind = "compliance" -> IF slot.compliance THEN 8 ELSE 2
      [] slot.kind = "sentiment"  -> slot.confidence
      [] slot.kind = "execution"  -> IF slot.safety_check = "safe" THEN 7 ELSE 3

Present(slot) == IF slot.kind = "None" THEN 0 ELSE 1

\* C20: the confidence the synthesizer stores is the arithmetic mean of the
\* contributions of exactly the stage results that are present (n times
\* the confidence is their sum, to within the rounding of the division),
\* and with no result present it returns normally and stores 0.0.
C20_ConfidenceIsMeanOfPresent ==
    [][\A id \in DOMAIN analysis_results :
          (last'.op = "generate_final_recommendation" /\ last'.id = id)
          => LET an  == analysis_results[id]
                 n   == Present(an.proposal_analysis) + Present(an.sentiment_prediction)
                          + Present(an.execution_plan)
                 sum == Contribution(an.proposal_analysis)
                          + Contribution(an.sentiment_prediction)
                          + Contribution(an.execution_plan)
             IN /\ n = 0 => (~last'.raised /\ analysis_results'[id].confidence_score = 0)
                /\ ~last'.raised
                     => /\ n * analysis_results'[id].confidence_score >= 60 * sum - n
                        /\ n * analysis_results'[id].confidence_score <= 60 * sum + n]_vars

\* The synthesizer has just run on two present results, compliance 0.8 and
\* sentiment 0.5, and stored their mean 0.65.
C20_Witness ==
    /\ last.op = "generate_final_recommendation"
    /\ ~last.raised
    /\ analysis_results[last.id].proposal_analysis.kind = "compliance"
    /\ analysis_results[last.id].proposal_analysis.compliance
    /\ analysis_results[last.id].sentiment_prediction.kind = "sentiment"
    /\ analysis_results[last.id].sentiment_prediction.confidence = 5
    /\ analysis_results[last.id].execution_plan.kind = "None"
    /\ analysis_results[last.id].confidence_score = 390

\* A synthesizer run on `id` that returned.
Synthesized(id) ==
    /\ last'.op = "generate_final_recommendation"
    /\ last'.id = id
    /\ ~last'.raised

\* C21: the stored recommendation and risk label follow the decision table
\* on the stored confidence and the number of risk flags, first match
\* winning, so that a confidence of exactly 0.7, 0.5 or 0.3 takes the next
\* row; compliant + sentiment confidence 0.9 (not Fail, no risk factors) +
\* safe execution gives confidence 0.8 and APPROVE / LOW.
C21_DecisionTable ==
    [][\A id \in DOMAIN analysis_results :
          Synthesized(id)
          => LET an    == analysis_results[id]
                 after == analysis_results'[id]
                 c     == after.confidence_score
                 r     == RiskFactorCount(an)
                 row   == <<after.final_recommendation, after.risk_assessment>>
             IN /\ (c > 420 /\ r = 0)
                     => row = <<"APPROVE - High confidence, low risk", "LOW">>
                /\ (~(c > 420 /\ r = 0) /\ c > 300 /\ r <= 1)
                     => row = <<"APPROVE WITH CONDITIONS - Moderate confidence", "MEDIUM">>
                /\ (~(c > 420 /\ r = 0) /\ ~(c > 300 /\ r <= 1) /\ c > 180)
                     => row = <<"DEFER - Requires additional review", "MEDIUM">>
                /\ (~(c > 420 /\ r = 0) /\ ~(c > 300 /\ r <= 1) /\ ~(c > 180))
                     => row = <<"REJECT - Low confidence or high risk", "HIGH">>
                /\ ( /\ an.proposal_analysis.kind = "compliance"
                     /\ an.proposal_analysis.compliance
                     /\ an.proposal_analysis.overall_risk # "HIGH"
                     /\ an.sentiment_prediction.kind = "sentiment"
                     /\ an.sentiment_prediction.confidence = 9
                     /\ an.sentiment_prediction.prediction # "Fail"
                     /\ an.sentiment_prediction.risk_factors = 0
                     /\ an.execution_plan.kind = "execution"
                     /\ an.execution_plan.safety_check = "safe" )
                     => /\ c = 480
                        /\ row = <<"APPROVE - High confidence, low risk", "LOW">>]_vars

\* The synthesizer has run on a lone sentiment result of confidence 0.7 with
\* no risk flag: the boundary itself, which took the second row.
C21_Witness ==
    /\ last.op = "generate_final_recommendation"
    /\ ~last.raised
    /\ analysis_results[last.id].proposal_analysis.kind = "None"
    /\ analysis_results[last.id].execution_plan.kind = "None"
    /\ analysis_results[last.id].sentiment_prediction.kind = "sentiment"
    /\ analysis_results[last.id].sentiment_prediction.risk_factors = 0
    /\ analysis_results[last.id].sentiment_prediction.prediction = "Pass"
    /\ analysis_results[last.id].confidence_score = 420
    /\ analysis_results[last.id].final_recommendation
         = "APPROVE WITH CONDITIONS - Moderate confidence"

\* C22: whenever the synthesizer runs on a record with an execution-plan
\* result, it returns with a recommendation from the decision table, and
\* that result has contributed 0.7 and no flag if its safety check is
\* marked safe and 0.3 and one flag otherwise, the absent safety check
\* included (shown on a lone execution result: confidence 0.7 and the
\* second row, or confidence 0.3 and REJECT).
C22_ExecutionContribution ==
    [][\A id \in DOMAIN analysis_results :
          ( /\ last'.op = "generate_final_recommendation"
            /\ last'.id = id
            /\ analysis_results[id].execution_plan.kind = "execution" )
          => LET an    == analysis_results[id]
                 after == analysis_results'[id]
                 alone == /\ an.proposal_analysis.kind = "None"
                          /\ an.sentiment_prediction.kind = "None"
             IN /\ ~last'.raised
                /\ after.final_recommendation \in DecisionLabels
                /\ (alone /\ an.execution_plan.safety_check = "safe")
                     => /\ after.confidence_score = 420
                        /\ after.final_recommendation
                             = "APPROVE WITH CONDITIONS - Moderate confidence"
                /\ (alone /\ an.execution_plan.safety_check # "safe")
                     => /\ after.confidence_score = 180
                        /\ after.final_recommendation
                             = "REJECT - Low confidence or high risk"]_vars

\* C23: in every reachable state the confidence_score of every analysis
\* record lies in [0, 1] (0 .. 600 in units of 1/600), whichever stage
\* results are present and whatever the sentiment confidence in [0, 1].
C23_ConfidenceScoreInRange ==
    \A id \in DOMAIN analysis_results :
        /\ analysis_results[id].confidence_score >= 0
        /\ analysis_results[id].confidence_score <= 600

\* The synthesizer has stored the largest confidence there is, from a lone
\* sentiment result of confidence 1.0.
C23_Witness ==
    /\ last.op = "generate_final_recommendation"
    /\ ~last.raised
    /\ analysis_results[last.id].sentiment_prediction.kind = "sentiment"
    /\ analysis_results[last.id].sentiment_prediction.confidence = 10
    /\ analysis_results[last.id].proposal_analysis.kind = "None"
    /\ analysis_results[last.id].execution_plan.kind = "None"
    /\ analysis_results[last.id].confidence_score = 600

\* ------------------------------------------------- per-user predictions
\* predict_user_vote applied to knowledge graphs drawn from bounded sets:
\* the sample data, and graphs over three known users and the unknown
\* user zed in which the influence map, the users alice follows, the votes
\* and the stored sentiment scores vary.
VoterProposals == {"prop_001", "prop_002"}

PredictUsers == {"alice", "bob", "charlie", "zed"}

\* Scores from -1.0 to 1.0, 1/3 and -1/3 among them (0.6 * 1/3 is 0.2).
SentimentScores == {-30, -15, -10, 0, 10, 15, 30}

NoScore == 99

\* The entries of choice other than the marker for an absent key.
PartialMap(choice, absent) ==
    [key \in {x \in DOMAIN choice : choice[x] # absent} |-> choice[key]]

PredictInfluence ==
    {("alice" :> 8) @@ ("bob" :> 6) @@ ("charlie" :> 4),
     ("alice" :> 10) @@ ("bob" :> 10) @@ ("charlie" :> 10),
     ("alice" :> 0) @@ ("bob" :> 5)}

PredictFollows ==
    {("alice" :> f) @@ ("bob" :> <<"charlie", "alice">>) @@ ("charlie" :> <<"alice">>) :
        f \in {<< >>, <<"bob">>, <<"bob", "charlie">>, <<"charlie", "zed">>}}

PredictVotes ==
    {PartialMap(c, "absent") :
        c \in {d \in [{<<"bob", "prop_001">>, <<"charlie", "prop_001">>,
                       <<"alice", "prop_001">>, <<"bob", "prop_002">>}
                      -> {"absent", "For", "Against", "Neutral"}] :
                 /\ d[<<"charlie", "prop_001">>] # "Neutral"
                 /\ d[<<"alice", "prop_001">>] \in {"absent", "For"}
                 /\ d[<<"bob", "prop_002">>] \in {"absent", "Against"}}}

PredictSentiments ==
    {PartialMap(c, NoScore) :
        c \in {d \in [{<<"alice", "prop_001">>, <<"bob", "prop_001">>}
                      -> SentimentScores \cup {NoScore}] :
                 d[<<"bob", "prop_001">>] \in {NoScore, 15}}}

PredictGraphs ==
    {SampleKnowledgeGraph}
    \cup [sentiments     : PredictSentiments,
          votes          : PredictVotes,
          follows        : PredictFollows,
          predictions    : {<< >>},
          user_influence : PredictInfluence]

InitPredict ==
    /\ workflows = << >>
    /\ analysis_results = << >>
    /\ pending_responses = << >>
    /\ dispatched = [k \in ProposalIds \X SendKinds |-> 0]
    /\ last = Op("init", "none", "none", FALSE, FALSE)
    /\ kg \in PredictGraphs
    /\ db = EmptyDatabase
    /\ suspended = {}

\* predictor.predict_user_vote(user_id, proposal_id): nothing is written.
call_predict_user_vote(user_id, proposal_id) ==
    /\ UNCHANGED <<workflows, analysis_results, pending_responses, dispatched, kg>>
    /\ last' = [op |-> "predict_user_vote", id |-> proposal_id, stage |-> "none",
                success |-> TRUE, raised |-> FALSE, user_id |-> user_id,
                prediction |-> predict_user_vote(kg, user_id, proposal_id)]
    /\ UNCHANGED <<db, suspended>>

NextPredict ==
    \E user_id \in PredictUsers, proposal_id \in VoterProposals :
        /\ last.op = "init"
        /\ call_predict_user_vote(user_id, proposal_id)

SpecPredict == InitPredict /\ [][NextPredict]_vars

\* The sentiment score stored for <<user_id, proposal_id>>, 0.0 when none.
StoredSentiment(k, user_id, proposal_id) ==
    IF <<user_id, proposal_id>> \in DOMAIN k.sentiments
      THEN k.sentiments[<<user_id, proposal_id>>] ELSE 0

\* C24: the stance of a prediction is For iff total > 0.2, Against iff
\* total < -0.2 and Neutral otherwise (so also at exactly 0.2 and -0.2),
\* where total = 0.6 * sentiment + 0.4 * socialInfluence and the sentiment
\* is 0.0 when none is stored; sentiment 0.5 with no follows gives For.
C24_StanceFromTotal ==
    [][last'.op = "predict_user_vote"
       => LET u     == last'.user_id
              p     == last'.id
              total == 20 * StoredSentiment(kg, u, p)
                         + 4 * SocialInfluenceScore(kg, get_social_connections(kg, u), p)
              st    == last'.prediction.stance
          IN /\ st = "For" <=> total > 200
             /\ st = "Against" <=> total < -200
             /\ st = "Neutral" <=> (total >= -200 /\ total <= 200)
             /\ (StoredSentiment(kg, u, p) = 15 /\ get_social_connections(kg, u) = << >>)
                  => (total = 300 /\ st = "For")]_vars

\* A prediction whose total is exactly 0.2 (sentiment 1/3, no social
\* influence) came out Neutral.
C24_Witness ==
    /\ last.op = "predict_user_vote"
    /\ StoredSentiment(kg, last.user_id, last.id) = 10
    /\ SocialInfluenceScore(kg, get_social_connections(kg, last.user_id), last.id) = 0
    /\ last.prediction.stance = "Neutral"

\* Sum of f over a finite set.
RECURSIVE SumOver(_, _)
SumOver(set, f) ==
    IF set = {} THEN 0
    ELSE LET x == CHOOSE y \in set : TRUE
         IN f[x] + SumOver(set \ {x}, f)

\* The users user_id follows that have a recorded vote on proposal_id.
FollowedVoters(k, user_id, proposal_id) ==
    {c \in {get_social_connections(k, user_id)[i] :
              i \in DOMAIN get_social_connections(k, user_id)} :
        <<c, proposal_id>> \in DOMAIN k.votes}

\* C26: the social-influence term of a prediction is the sum, over exactly
\* the followed users that have a vote on the same proposal, of
\* (+1 For, -1 Against, 0 otherwise) * that user's influence * 0.3, and the
\* prediction is the one this term gives; nobody else's vote, no vote on
\* another proposal and not the user's own vote enters it.
C26_SocialInfluenceTerm ==
    [][last'.op = "predict_user_vote"
       => LET u      == last'.user_id
              p      == last'.id
              voters == FollowedVoters(kg, u, p)
              term   == SumOver(voters,
                          [c \in voters |->
                             VoteWeight(kg.votes[<<c, p>>]) * get_user_influence(kg, c) * 3])
              total  == 20 * StoredSentiment(kg, u, p) + 4 * term
          IN /\ SocialInfluenceScore(kg, get_social_connections(kg, u), p) = term
             /\ last'.prediction.stance = Stance(total)
             /\ last'.prediction.confidence
                  = Min(Abs(total) + 20 * get_user_influence(kg, u), 1000)]_vars

\* A prediction for alice on prop_001 in the sample data: she follows bob
\* (Against, 0.6) and charlie (For, 0.4), has a vote of her own and votes
\* exist on prop_002; the term is -0.18 + 0.12 and the confidence
\* 0.024 + 0.16.
C26_Witness ==
    /\ last.op = "predict_user_vote"
    /\ last.user_id = "alice"
    /\ last.id = "prop_001"
    /\ kg = SampleKnowledgeGraph
    /\ last.prediction.confidence = 184

\* ------------------------------------------------------ voting outcomes
\* handle_proposal_request applied to user lists of up to MaxUsers entries
\* (repetitions allowed) over the known user alice and the unknown users
\* zed and yan, on knowledge graphs drawn from three bases (the sample data, a
\* graph of full-influence users who all vote For, a graph in which the
\* known users have no influence) with varying stored sentiment scores.
OutcomeUsers == {"alice", "zed", "yan"}

RECURSIVE SeqsUpTo(_, _)
SeqsUpTo(set, n) ==
    IF n = 0 THEN {<< >>}
    ELSE LET shorter == SeqsUpTo(set, n - 1)
         IN shorter \cup {Append(q, x) : q \in {r \in shorter : Len(r) = n - 1}, x \in set}

UserLists == SeqsUpTo(OutcomeUsers, MaxUsers)

OutcomeSentiments ==
    {PartialMap(c, NoScore) :
        c \in {d \in [{<<"alice", "prop_001">>, <<"zed", "prop_001">>, <<"yan", "prop_001">>}
                      -> {NoScore, -30, 28, 30}] :
                 /\ d[<<"alice", "prop_001">>] \in {NoScore, 30}
                 /\ d[<<"zed", "prop_001">>] \in {NoScore, -30}
                 /\ d[<<"yan", "prop_001">>] \in {NoScore, 28}}}

FullInfluenceGraph ==
    [sentiments     |-> << >>,
     votes          |-> (<<"bob", "prop_001">> :> "For") @@ (<<"charlie", "prop_001">> :> "For"),
     follows        |-> ("alice" :> <<"bob", "charlie">>),
     predictions    |-> << >>,
     user_influence |-> ("alice" :> 10) @@ ("bob" :> 10) @@ ("charlie" :> 10)]

NoInfluenceGraph ==
    [SampleKnowledgeGraph EXCEPT !.user_influence = ("alice" :> 0) @@ ("bob" :> 0)]

OutcomeGraphs ==
    {[base EXCEPT !.sentiments = sm] :
        base \in {SampleKnowledgeGraph, FullInfluenceGraph, NoInfluenceGraph},
        sm \in OutcomeSentiments}

InitOutcome ==
    /\ workflows = << >>
    /\ analysis_results = << >>
    /\ pending_responses = << >>
    /\ dispatched = [k \in ProposalIds \X SendKinds |-> 0]
    /\ last = Op("init", "none", "none", FALSE, FALSE)
    /\ kg \in OutcomeGraphs
    /\ db = EmptyDatabase
    /\ suspended = {}

\* handle_proposal_request: calculate_voting_outcome, then the result is
\* sent to the requester. Nothing in calculate_voting_outcome raises on a
\* list of strings, so the except branch with its "Error" reply is not
\* taken.
handle_proposal_request(proposal_id, user_list) ==
    LET r == calculate_voting_outcome(kg, proposal_id, user_list)
    IN /\ kg' = r.kg
       /\ UNCHANGED <<workflows, analysis_results, pending_responses, dispatched>>
       /\ last' = [op |-> "handle_proposal_request", id |-> proposal_id,
                   stage |-> "none", success |-> TRUE, raised |-> FALSE,
                   user_list |-> user_list, reply |-> r.response]
       /\ UNCHANGED <<db, suspended>>

NextOutcome ==
    \E proposal_id \in VoterProposals, user_list \in UserLists :
        /\ last.op = "init"
        /\ handle_proposal_request(proposal_id, user_list)

SpecOutcome == InitOutcome /\ [][NextOutcome]_vars

\* The influence-weighted score of the predictions stored for the listed
\* users, in ten-thousandths: + confidence * influence for For,
\* - confidence * influence for Against, summed over the list positions.
ListedScore(k, proposal_id, user_list) ==
    SumOver(DOMAIN user_list,
            [i \in DOMAIN user_list |->
               LET pred == k.predictions[<<user_list[i], proposal_id>>]
               IN VoteWeight(pred.stance) * pred.confidence
                    * get_user_influence(k, user_list[i])])

\* The summed influence of the listed users, in tenths.
ListedPower(k, user_list) ==
    SumOver(DOMAIN user_list,
            [i \in DOMAIN user_list |-> get_user_influence(k, user_list[i])])

\* C25: every per-user prediction made for a request has confidence
\* min(|total| + 0.2 * selfInfluence, 1.0), within [0, 1]; and the
\* confidence of the outcome is min(|weightedScore| / max(totalVotingPower,
\* 1), 1.0), within [0, 1].
C25_ConfidencesClamped ==
    [][last'.op = "handle_proposal_request"
       => LET p    == last'.id
              list == last'.user_list
              conf == last'.reply.confidence
              w    == Abs(ListedScore(kg', p, list))
              d    == 1000 * Max(ListedPower(kg, list), 10)
          IN /\ \A i \in DOMAIN list :
                   LET u     == list[i]
                       total == 20 * StoredSentiment(kg, u, p)
                                  + 4 * SocialInfluenceScore(kg,
                                          get_social_connections(kg, u), p)
                       c     == kg'.predictions[<<u, p>>].confidence
                   IN /\ c = Min(Abs(total) + 20 * get_user_influence(kg, u), 1000)
                      /\ c >= 0
                      /\ c <= 1000
             /\ conf.den = d
             /\ conf.num = (IF w <= d THEN w ELSE d)
             /\ conf.num >= 0
             /\ conf.num <= conf.den]_vars

\* A request listing alice in the full-influence graph with her sentiment
\* at 1.0: |total| + 0.2 * influence is 1.04, the stored confidence 1.0,
\* and the outcome's confidence 1.0 as well.
C25_Witness ==
    /\ last.op = "handle_proposal_request"
    /\ last.user_list = <<"alice">>
    /\ last.id = "prop_001"
    /\ 20 * StoredSentiment(kg, "alice", "prop_001")
         + 4 * SocialInfluenceScore(kg, get_social_connections(kg, "alice"), "prop_001")
         + 20 * get_user_influence(kg, "alice") = 1040
    /\ kg.predictions[<<"alice", "prop_001">>].confidence = 1000
    /\ last.reply.confidence.num = last.reply.confidence.den

\* C27: a request with an empty user list is answered without raising, with
\* prediction Uncertain, confidence 0, a vote breakdown of all zeros and no
\* key influencers.
C27_EmptyUserList ==
    [][(last'.op = "handle_proposal_request" /\ last'.user_list = << >>)
       => /\ ~last'.raised
          /\ last'.reply.prediction = "Uncertain"
          /\ last'.reply.confidence.num = 0
          /\ last'.reply.confidence.den > 0
          /\ last'.reply.vote_breakdown
               = [stance \in {"For", "Against", "Neutral"} |-> 0]
          /\ last'.reply.key_influencers = << >>]_vars

\* A request with an empty user list has been answered.
C27_Witness ==
    /\ last.op = "handle_proposal_request"
    /\ last.user_list = << >>
    /\ last.reply.prediction = "Uncertain"

\* C28: the outcome is Pass iff weightedScore > threshold, Fail iff
\* weightedScore < -threshold and Uncertain otherwise (so also at exactly
\* +/- threshold), where weightedScore sums + confidence * influence over
\* the For predictions and - confidence * influence over the Against
\* predictions and threshold = 0.10 * the listed users' summed influence.
C28_OutcomeFromWeightedScore ==
    [][last'.op = "handle_proposal_request"
       => LET w   == ListedScore(kg', last'.id, last'.user_list)
              thr == 100 * ListedPower(kg, last'.user_list)
              out == last'.reply.prediction
          IN /\ out = "Pass" <=> w > thr
             /\ out = "Fail" <=> w < 0 - thr
             /\ out = "Uncertain" <=> (w >= 0 - thr /\ w <= thr)]_vars

\* An outcome whose weighted score is not zero and exactly at the
\* threshold came out Uncertain (in the sample data yan, with sentiment
\* 28/30, is For with confidence 0.6 and influence 0.2 beside the Neutral
\* alice and zed: 0.12 against 0.1 * (0.8 + 0.2 + 0.2)).
C28_Witness ==
    /\ last.op = "handle_proposal_request"
    /\ ListedScore(kg, last.id, last.user_list) # 0
    /\ Abs(ListedScore(kg, last.id, last.user_list))
         = 100 * ListedPower(kg, last.user_list)
    /\ last.reply.prediction = "Uncertain"

\* Position m of the list comes before position i in the order of
\* descending influence with ties in list order.
RanksBefore(k, user_list, m, i) ==
    \/ get_user_influence(k, user_list[m]) > get_user_influence(k, user_list[i])
    \/ /\ get_user_influence(k, user_list[m]) = get_user_influence(k, user_list[i])
       /\ m < i

\* C29: key_influencers has min(3, len(userList)) entries, and its j-th
\* entry is the list element that exactly j - 1 other positions precede in
\* the order of descending influence with equal influence (the 0.2 default
\* of unknown users included) kept in list order.
C29_KeyInfluencers ==
    [][last'.op = "handle_proposal_request"
       => LET list == last'.user_list
              key  == last'.reply.key_influencers
          IN /\ Len(key) = Min(3, Len(list))
             /\ \A j \in DOMAIN key :
                  \E i \in DOMAIN list :
                     /\ key[j] = list[i]
                     /\ Cardinality({m \in DOMAIN list :
                                       RanksBefore(kg, list, m, i)}) = j - 1]_vars

\* The unknown users yan and zed, both at the default influence, were
\* listed in this order before alice twice: yan takes the third place.
C29_Witness ==
    /\ last.op = "handle_proposal_request"
    /\ last.user_list = <<"yan", "zed", "alice", "alice">>
    /\ kg.user_influence = SampleInfluence
    /\ last.reply.key_influencers = <<"alice", "alice", "yan">>

\* C30: 'High voter apathy' is reported iff the Neutral count exceeds 30%
\* of the list length, 'Very close margin' iff |For - Against| <= 2,
\* 'Small sample size' iff the list has fewer than 5 users, each whatever
\* the other two, and nothing else is reported.
C30_RiskFactorsIndependent ==
    [][last'.op = "handle_proposal_request"
       => LET n      == Len(last'.user_list)
              counts == last'.reply.vote_breakdown
              risks  == {last'.reply.risk_factors[i] :
                           i \in DOMAIN last'.reply.risk_factors}
          IN /\ "High voter apathy" \in risks <=> 10 * counts["Neutral"] > 3 * n
             /\ "Very close margin" \in risks
                  <=> Abs(counts["For"] - counts["Against"]) <= 2
             /\ "Small sample size" \in risks <=> n < 5
             /\ risks \subseteq {"High voter apathy", "Very close margin",
                                 "Small sample size"}
             /\ Len(last'.reply.risk_factors) = Cardinality(risks)]_vars

\* A request whose three conditions all hold got all three risk factors.
C30_Witness ==
    /\ last.op = "handle_proposal_request"
    /\ last.reply.risk_factors
         = <<"High voter apathy", "Very close margin", "Small sample size">>


\* ---------------------------------------------------------------------------
\* Backend votes table (src/backend/main.py, src/backend/models.py).
\* db.dao_members maps a member id to its wallet address, db.proposals is the
\* set of proposal ids, db.votes the set of rows of the votes table and
\* db.checked the vote requests that have passed the handler's queries and
\* have not committed yet (requests are served concurrently, one session
\* each).
\* ---------------------------------------------------------------------------

MaxProposals == 1
MaxInFlight == 2

WalletAddresses == {"0xA", "0xB"}
MemberIds == 1 .. Cardinality(WalletAddresses)
BackendProposalIds == 1 .. MaxProposals
VoteChoice == {"for", "against", "abstain"}
HTTP_201_CREATED == 201
HTTP_400 == 400
HTTP_404 == 404
IntegrityError == 500

VoteRequests ==
    [proposal_id : BackendProposalIds, voter_member_id : MemberIds,
     choice : VoteChoice]

BackendOp(op, code) ==
    [op |-> op, id |-> "none", stage |-> "none", success |-> code = HTTP_201_CREATED,
     raised |-> code # HTTP_201_CREATED, status_code |-> code]

VoteOp(op, code, request) ==
    [op |-> op, id |-> "none", stage |-> "none", success |-> code = HTTP_201_CREATED,
     raised |-> code # HTTP_201_CREATED, status_code |-> code, request |-> request]

ExistingVote(database, proposal_id, voter_member_id) ==
    \E row \in database.votes :
        /\ row.proposal_id = proposal_id
        /\ row.voter_member_id = voter_member_id

create_dao_member(wallet_address) ==
    /\ IF \E m \in DOMAIN db.dao_members : db.dao_members[m] = wallet_address
         THEN /\ db' = db
              /\ last' = BackendOp("create_dao_member", HTTP_400)
         ELSE /\ db' = [db EXCEPT !.dao_members =
                           Put(@, Cardinality(DOMAIN @) + 1, wallet_address)]
              /\ last' = BackendOp("create_dao_member", HTTP_201_CREATED)
    /\ UNCHANGED <<workflows, analysis_results, pending_responses, dispatched, kg,
                 suspended>>

create_proposal(submitted_by_member_id) ==
    /\ Cardinality(db.proposals) < MaxProposals
         \/ submitted_by_member_id \notin DOMAIN db.dao_members
    /\ IF submitted_by_member_id \notin DOMAIN db.dao_members
         THEN /\ db' = db
              /\ last' = BackendOp("create_proposal", HTTP_404)
         ELSE /\ db' = [db EXCEPT !.proposals = @ \cup {Cardinality(@) + 1}]
              /\ last' = BackendOp("create_proposal", HTTP_201_CREATED)
    /\ UNCHANGED <<workflows, analysis_results, pending_responses, dispatched, kg,
                 suspended>>

\* The queries of cast_vote_on_proposal, up to the construction of the row.
cast_vote_on_proposal(request) ==
    /\ request \notin db.checked
    /\ Cardinality(db.checked) < MaxInFlight
    /\ IF request.proposal_id \notin db.proposals
              \/ request.voter_member_id \notin DOMAIN db.dao_members
         THEN /\ db' = db
              /\ last' = VoteOp("cast_vote_on_proposal", HTTP_404, request)
         ELSE IF ExistingVote(db, request.proposal_id, request.voter_member_id)
         THEN /\ db' = db
              /\ last' = VoteOp("cast_vote_on_proposal", HTTP_400, request)
         ELSE /\ db' = [db EXCEPT !.checked = @ \cup {request}]
              /\ last' = VoteOp("cast_vote_on_proposal", 0, request)
    /\ UNCHANGED <<workflows, analysis_results, pending_responses, dispatched, kg,
                 suspended>>

commit_vote_unconstrained(request) ==
    /\ request \in db.checked
    /\ db' = [db EXCEPT !.checked = @ \ {request}, !.votes = @ \cup {request}]
    /\ last' = VoteOp("commit_vote", HTTP_201_CREATED, request)
    /\ UNCHANGED <<workflows, analysis_results, pending_responses, dispatched, kg,
                 suspended>>

\* db.add / db.commit of cast_vote_on_proposal under the table's
\* UniqueConstraint('proposal_id', 'voter_member_id').
commit_vote(request) ==
    /\ request \in db.checked
    /\ IF ExistingVote(db, request.proposal_id, request.voter_member_id)
         THEN /\ db' = [db EXCEPT !.checked = @ \ {request}]
              /\ last' = VoteOp("commit_vote", IntegrityError, request)
         ELSE /\ db' = [db EXCEPT !.checked = @ \ {request},
                                  !.votes = @ \cup {request}]
              /\ last' = VoteOp("commit_vote", HTTP_201_CREATED, request)
    /\ UNCHANGED <<workflows, analysis_results, pending_responses, dispatched, kg,
                 suspended>>

NextVotes ==
    \/ \E wallet_address \in WalletAddresses : create_dao_member(wallet_address)
    \/ \E submitted_by_member_id \in MemberIds : create_proposal(submitted_by_member_id)
    \/ \E request \in VoteRequests : cast_vote_on_proposal(request)
    \/ \E request \in VoteRequests : commit_vote(request)

SpecVotes == Init /\ [][NextVotes]_vars

\* C31: the votes table holds at most one row per (proposal, member) pair; a
\* row once recorded is never changed or removed; and a cast for a pair that
\* already has a row is rejected (400 at the query, or the unique constraint
\* at the commit) and leaves the table as it was, whatever stance it carries.
C31_OneVotePerPair ==
    [][ /\ db.votes \subseteq db'.votes
        /\ \A r1 \in db'.votes, r2 \in db'.votes :
               (r1.proposal_id = r2.proposal_id
                  /\ r1.voter_member_id = r2.voter_member_id) => r1 = r2
        /\ (/\ last'.op \in {"cast_vote_on_proposal", "commit_vote"}
            /\ ExistingVote(db, last'.request.proposal_id,
                            last'.request.voter_member_id))
             => /\ last'.status_code \in {HTTP_400, IntegrityError}
                /\ db'.votes = db.votes ]_vars

C31_Witness ==
    /\ last.op = "commit_vote"
    /\ last.status_code = IntegrityError
    /\ \E row \in db.votes :
          /\ row.proposal_id = last.request.proposal_id
          /\ row.voter_member_id = last.request.voter_member_id
          /\ row.choice # last.request.choice
    /\ Cardinality(db.votes) = 2


\* ---------------------------------------------------------------------------
\* The voter agent over time: comments, single predictions and proposal
\* requests in any order, starting from the sample data.
\* ---------------------------------------------------------------------------

MaxListed == 2

CommentUsers == {"alice", "zed"}
CommentProposals == {"prop_001"}

\* sentiment_score of the SentimentOutput: the analyzer's score, or the 0.0
\* of a failed analysis or of a result without the field.
CommentScores == {-30, 0, 30}

ListedUsers == SeqsUpTo(CommentUsers, MaxListed)

assert_sentiment_keeping_first(k, user_id, proposal_id, sentiment_score) ==
    IF <<user_id, proposal_id>> \in DOMAIN k.sentiments THEN k
    ELSE [k EXCEPT !.sentiments = Put(@, <<user_id, proposal_id>>, sentiment_score)]

\* kg["sentiments"][(user_id, proposal_id)] = sentiment; the observation is
\* kept as its sentiment_score, the one field that is read back.
assert_sentiment(k, user_id, proposal_id, sentiment_score) ==
    [k EXCEPT !.sentiments = Put(@, <<user_id, proposal_id>>, sentiment_score)]

\* The score stored for the key, NoScore when there is none.
ObservedSentiment(k, user_id, proposal_id) ==
    IF <<user_id, proposal_id>> \in DOMAIN k.sentiments
      THEN k.sentiments[<<user_id, proposal_id>>] ELSE NoScore

\* handle_discussion_comment: the analyzer's observation is stored, then
\* the "processed" response carries its score.
handle_discussion_comment(user_id, proposal_id, sentiment_score) ==
    /\ kg' = assert_sentiment(kg, user_id, proposal_id, sentiment_score)
    /\ last' = [op |-> "handle_discussion_comment", id |-> proposal_id,
                stage |-> "none", success |-> TRUE, raised |-> FALSE,
                user_id |-> user_id, sentiment_score |-> sentiment_score,
                replaced |-> ObservedSentiment(kg, user_id, proposal_id)]
    /\ UNCHANGED <<workflows, analysis_results, pending_responses, dispatched, db,
                 suspended>>

InitVoter ==
    /\ workflows = << >>
    /\ analysis_results = << >>
    /\ pending_responses = << >>
    /\ dispatched = [k \in ProposalIds \X SendKinds |-> 0]
    /\ last = Op("init", "none", "none", FALSE, FALSE)
    /\ kg = SampleKnowledgeGraph
    /\ db = EmptyDatabase
    /\ suspended = {}

NextVoter ==
    \/ \E user_id \in CommentUsers, proposal_id \in CommentProposals,
          sentiment_score \in CommentScores :
          handle_discussion_comment(user_id, proposal_id, sentiment_score)
    \/ \E user_id \in CommentUsers, proposal_id \in VoterProposals :
          call_predict_user_vote(user_id, proposal_id)
    \/ \E proposal_id \in CommentProposals, user_list \in ListedUsers :
          handle_proposal_request(proposal_id, user_list)

SpecVoter == InitVoter /\ [][NextVoter]_vars

\* C32: a comment step leaves the score of its call stored under its key and
\* every other key as it was; no other step changes a stored observation;
\* and a prediction is computed from the score stored at that moment (0.0
\* when there is none), naming the sentiment in its reasoning iff one is
\* stored.
C32_SentimentLastWriteWins ==
    [][ /\ last'.op = "handle_discussion_comment"
          => /\ ObservedSentiment(kg', last'.user_id, last'.id) = last'.sentiment_score
             /\ \A u \in CommentUsers \cup PredictUsers, p \in VoterProposals :
                   <<u, p>> # <<last'.user_id, last'.id>>
                     => ObservedSentiment(kg', u, p) = ObservedSentiment(kg, u, p)
        /\ last'.op # "handle_discussion_comment" => kg'.sentiments = kg.sentiments
        /\ last'.op = "predict_user_vote"
          => LET u     == last'.user_id
                 p     == last'.id
                 total == 20 * StoredSentiment(kg', u, p)
                            + 4 * SocialInfluenceScore(kg', get_social_connections(kg', u), p)
             IN /\ last'.prediction.stance
                     = (IF total > 200 THEN "For"
                        ELSE IF total < -200 THEN "Against" ELSE "Neutral")
                /\ (\E i \in 1 .. Len(last'.prediction.reasoning) :
                       last'.prediction.reasoning[i] = "Sentiment")
                     <=> <<u, p>> \in DOMAIN kg'.sentiments ]_vars

\* alice's earlier observation 1.0 produced a stored For prediction; after
\* her comment scored -1.0 the next prediction for her is Against, with
\* zed's observation still in place.
C32_Witness ==
    /\ last.op = "predict_user_vote"
    /\ last.user_id = "alice"
    /\ last.id = "prop_001"
    /\ last.prediction.stance = "Against"
    /\ ObservedSentiment(kg, "alice", "prop_001") = -30
    /\ ObservedSentiment(kg, "zed", "prop_001") = 30
    /\ <<"alice", "prop_001">> \in DOMAIN kg.predictions
    /\ kg.predictions[<<"alice", "prop_001">>].stance = "For"


\* C39: predict_user_vote leaves the whole knowledge graph as it was;
\* a proposal request (calculate_voting_outcome) leaves sentiments, votes,
\* follows and user_influence as they were and changes predictions only at
\* the keys <<u, proposal>> of the listed users u, each of which then holds
\* the prediction computed for u from the graph before the call.
C39_PredictionFrame ==
    [][ /\ last'.op = "predict_user_vote" => kg' = kg
        /\ last'.op = "handle_proposal_request"
          => LET listed == {<<last'.user_list[i], last'.id>> :
                               i \in 1 .. Len(last'.user_list)}
             IN /\ kg'.sentiments = kg.sentiments
                /\ kg'.votes = kg.votes
                /\ kg'.follows = kg.follows
                /\ kg'.user_influence = kg.user_influence
                /\ DOMAIN kg'.predictions = (DOMAIN kg.predictions) \cup listed
                /\ \A key \in DOMAIN kg'.predictions :
                      IF key \in listed
                        THEN kg'.predictions[key]
                               = predict_user_vote(kg, key[1], last'.id)
                        ELSE kg'.predictions[key] = kg.predictions[key] ]_vars

\* A request listing only zed, made when alice's stored prediction (For) no
\* longer matches what her observation (-1.0) would give: her entry stays.
C39_Witness ==
    /\ last.op = "handle_proposal_request"
    /\ last.user_list = <<"zed">>
    /\ <<"zed", "prop_001">> \in DOMAIN kg.predictions
    /\ <<"alice", "prop_001">> \in DOMAIN kg.predictions
    /\ kg.predictions[<<"alice", "prop_001">>].stance = "For"
    /\ ObservedSentiment(kg, "alice", "prop_001") = -30


\* C36: every stored workflow is at one of the four pairs (proposal_analysis,
\* 10), (sentiment_analysis, 40), (execution_planning, 70), (completed, 100),
\* and a summary just answered counts as completed exactly the workflows
\* whose stage is completed.
C36_StageProgressPairs ==
    /\ \A id \in DOMAIN workflows :
          <<workflows[id].current_stage, workflows[id].progress_percentage>>
             \in {<<"proposal_analysis", 10>>, <<"sentiment_analysis", 40>>,
                  <<"execution_planning", 70>>, <<"completed", 100>>}
    /\ (last.op = "handle_user_query" /\ last.reply.answer = "summary")
          => last.reply.completed_workflows
               = Cardinality({id \in DOMAIN workflows :
                                workflows[id].current_stage = "completed"})

\* A summary has just counted one completed workflow.
C36_Witness ==
    /\ last.op = "handle_user_query"
    /\ last.reply.answer = "summary"
    /\ last.reply.completed_workflows = 1
    /\ \E id \in DOMAIN workflows : workflows[id].current_stage = "completed"

\* C37: complete_analysis_stage for an id without workflow, or with a stage
\* name outside the three known stages, leaves workflows, analysis_results
\* and pending_responses exactly as they were and does not raise.
C37_UnknownCompletionIsNoOp ==
    [][(/\ last'.op = "complete_analysis_stage"
        /\ (last'.id \notin DOMAIN workflows \/ last'.stage \notin Stages))
          => /\ workflows' = workflows
             /\ analysis_results' = analysis_results
             /\ pending_responses' = pending_responses
             /\ ~last'.raised]_vars

\* A stage was completed for the id that was never started while another
\* workflow, already advanced, is stored.
C37_Witness ==
    /\ last.op = "complete_analysis_stage"
    /\ last.id = "prop_never"
    /\ last.stage \in Stages
    /\ last.success
    /\ DOMAIN workflows = {"prop_1"}
    /\ DOMAIN analysis_results = {"prop_1"}
    /\ workflows["prop_1"].current_stage = "execution_planning"


\* C38: a step that reports a failed stage is an execution reply; for a
\* known id every compliance reply (compliant or not) leaves the workflow at
\* sentiment_analysis / 40 with analysis_complete set and the reply stored,
\* and every sentiment reply (the "Error" prediction included) leaves it at
\* execution_planning / 70 with sentiment_analysis_complete set and the
\* reply stored.
C38_OnlyExecutionReportsFailure ==
    [][ /\ (last'.op \in {"handle_proposal_analysis_response",
                          "handle_voter_sentiment_response",
                          "handle_execution_response"} /\ ~last'.success)
            => last'.op = "handle_execution_response"
        /\ (last'.op = "handle_proposal_analysis_response" /\ last'.id \in DOMAIN workflows)
            => /\ workflows'[last'.id].current_stage = "sentiment_analysis"
               /\ workflows'[last'.id].progress_percentage = 40
               /\ workflows'[last'.id].analysis_complete
               /\ analysis_results'[last'.id].proposal_analysis \in ComplianceData
        /\ (last'.op = "handle_voter_sentiment_response" /\ last'.id \in DOMAIN workflows)
            => /\ workflows'[last'.id].current_stage = "execution_planning"
               /\ workflows'[last'.id].progress_percentage = 70
               /\ workflows'[last'.id].sentiment_analysis_complete
               /\ analysis_results'[last'.id].sentiment_prediction \in SentimentData ]_vars

\* The sentiment reply "Error" has just advanced a workflow whose stored
\* compliance reply says compliance = false.
C38_Witness ==
    /\ last.op = "handle_voter_sentiment_response"
    /\ ~last.raised
    /\ last.id \in DOMAIN workflows
    /\ workflows[last.id].current_stage = "execution_planning"
    /\ workflows[last.id].progress_percentage = 70
    /\ analysis_results[last.id].sentiment_prediction.prediction = "Error"
    /\ analysis_results[last.id].proposal_analysis.kind = "compliance"
    /\ ~analysis_results[last.id].proposal_analysis.compliance


\* C34: the completion flags are monotonic under stage replies: a reply
\* handled for a known id never leaves analysis_complete,
\* sentiment_analysis_complete or execution_plan_ready false when it was
\* true before.
C34_FlagsMonotonic ==
    [][(/\ last'.op \in {"handle_proposal_analysis_response",
                         "handle_voter_sentiment_response",
                         "handle_execution_response"}
        /\ last'.id \in DOMAIN workflows)
          => LET before == workflows[last'.id]
                 after  == workflows'[last'.id]
             IN /\ before.analysis_complete => after.analysis_complete
                /\ before.sentiment_analysis_complete => after.sentiment_analysis_complete
                /\ before.execution_plan_ready => after.execution_plan_ready]_vars


\* C35: a sentiment-prediction request is sent for an id only when the id is
\* a known workflow whose proposal_analysis slot is populated, and an
\* execution-planning request only when the id is known and its
\* sentiment_prediction slot is populated; so a reply for an id that was
\* never started sends neither.
C35_DispatchOnlyAfterStoredResult ==
    [][\A id \in ProposalIds :
          /\ dispatched'[<<id, "voter_request">>] # dispatched[<<id, "voter_request">>]
               => /\ id \in DOMAIN workflows'
                  /\ id \in DOMAIN analysis_results'
                  /\ Truthy(analysis_results'[id].proposal_analysis)
          /\ dispatched'[<<id, "execution_request">>] # dispatched[<<id, "execution_request">>]
               => /\ id \in DOMAIN workflows'
                  /\ id \in DOMAIN analysis_results'
                  /\ Truthy(analysis_results'[id].sentiment_prediction)]_vars


\* ---------------------------------------------------------------------------
\* The coordinator's handlers as coroutines: a handler runs without
\* interruption up to its first `await ctx.send(...)`, stays suspended while
\* the send is under way, and resumes after it; meanwhile the handlers of
\* other messages, for the same or another identifier, run. suspended holds
\* one <<id, kind>> per handler awaiting its send of that kind. prop_1
\* receives every message, prop_2 submissions and compliance replies.
\* ---------------------------------------------------------------------------

MaxSuspended == 2

AsyncOp(name, id, stage, success, raised, msg) ==
    [op |-> name, id |-> id, stage |-> stage, success |-> success, raised |-> raised,
     msg |-> msg]

\* The environment delivers each kind of message at most once per id: the
\* handler whose send is of this kind has not run for id, and one more
\* handler may be suspended.
CanSuspend(id, kind) ==
    /\ <<id, kind>> \notin suspended
    /\ dispatched[<<id, kind>>] = 0
    /\ Cardinality(suspended) < MaxSuspended

\* handle_proposal_submission up to its first await.
begin_proposal_submission(id) ==
    /\ CanSuspend(id, "analysis_request")
    /\ <<id, "status_reply">> \notin suspended
    /\ Store(start_workflow(TheOrch, id))
    /\ suspended' = suspended \cup {<<id, "analysis_request">>}
    /\ last' = AsyncOp("handle_proposal_submission", id, "none", TRUE, FALSE, NoData)
    /\ UNCHANGED <<dispatched, kg, db>>

begin_proposal_analysis_response_sending_first(id, msg) ==
    /\ CanSuspend(id, "voter_request")
    /\ UNCHANGED <<workflows, analysis_results, pending_responses>>
    /\ suspended' = suspended \cup {<<id, "voter_request">>}
    /\ last' = AsyncOp("handle_proposal_analysis_response", id, "proposal_analysis",
                       TRUE, FALSE, msg)
    /\ UNCHANGED <<dispatched, kg, db>>

\* handle_proposal_analysis_response up to its await.
begin_proposal_analysis_response(id, msg) ==
    LET r == complete_analysis_stage(TheOrch, id, "proposal_analysis", TRUE, msg)
    IN /\ CanSuspend(id, "voter_request")
       /\ Store(r.orch)
       /\ suspended' = suspended \cup {<<id, "voter_request">>}
       /\ last' = AsyncOp("handle_proposal_analysis_response", id, "proposal_analysis",
                          TRUE, FALSE, msg)
       /\ UNCHANGED <<dispatched, kg, db>>

\* handle_voter_sentiment_response up to its await, or to its end when the
\* id is unknown or the request cannot be built.
begin_voter_sentiment_response(id, msg) ==
    LET r      == complete_analysis_stage(TheOrch, id, "sentiment_analysis", TRUE, msg)
        known  == id \in DOMAIN r.orch.analysis_results
        raised == known /\ ~Truthy(r.orch.analysis_results[id].proposal_analysis)
    IN /\ raised => RoomForError(r.orch, id)
       /\ (known /\ ~raised) => CanSuspend(id, "execution_request")
       /\ Store(IF raised THEN AppendError(r.orch, id, AttributeError) ELSE r.orch)
       /\ suspended' =
            IF known /\ ~raised THEN suspended \cup {<<id, "execution_request">>}
            ELSE suspended
       /\ last' = AsyncOp("handle_voter_sentiment_response", id, "sentiment_analysis",
                          TRUE, raised, msg)
       /\ UNCHANGED <<dispatched, kg, db>>

\* handle_execution_response, which awaits nothing.
run_execution_response(id, msg) ==
    LET r == complete_analysis_stage(TheOrch, id, "execution_planning", msg.success, msg)
    IN /\ r.raised => RoomForError(r.orch, id)
       /\ Store(IF r.raised THEN AppendError(r.orch, id, AttributeError) ELSE r.orch)
       /\ last' = AsyncOp("handle_execution_response", id, "execution_planning",
                          msg.success, r.raised, msg)
       /\ UNCHANGED <<dispatched, suspended, kg, db>>

\* The send a handler awaits completes and the handler resumes: the
\* submission handler goes on to its second send, the others end.
resume_after_send(id, kind) ==
    /\ <<id, kind>> \in suspended
    /\ dispatched' = Sent(dispatched, id, kind)
    /\ suspended' = (suspended \ {<<id, kind>>})
                      \cup (IF kind = "analysis_request" THEN {<<id, "status_reply">>} ELSE {})
    /\ last' = AsyncOp("ctx.send", id, "none", TRUE, FALSE, NoData)
    /\ UNCHANGED <<workflows, analysis_results, pending_responses, kg, db>>

NextAsync ==
    \/ \E id \in LiveIds : begin_proposal_submission(id)
    \/ \E id \in LiveIds, msg \in IsoCompliance : begin_proposal_analysis_response(id, msg)
    \/ \E id \in IsoFullIds, msg \in IsoSentiment : begin_voter_sentiment_response(id, msg)
    \/ \E id \in IsoFullIds, msg \in IsoExecution : run_execution_response(id, msg)
    \/ \E id \in LiveIds, kind \in SendKinds : resume_after_send(id, kind)

SpecAsync == InitLive /\ [][NextAsync]_vars


\* The entries of id in the three maps (empty sets where it has none).
Project(o, id) ==
    << IF id \in DOMAIN o.workflows THEN {o.workflows[id]} ELSE {},
       IF id \in DOMAIN o.analysis_results THEN {o.analysis_results[id]} ELSE {},
       IF id \in DOMAIN o.pending_responses THEN {o.pending_responses[id]} ELSE {} >>

\* The orchestrator holding the entries of id only.
Restrict(o, id) ==
    Orch([x \in (DOMAIN o.workflows) \cap {id} |-> o.workflows[x]],
         [x \in (DOMAIN o.analysis_results) \cap {id} |-> o.analysis_results[x]],
         [x \in (DOMAIN o.pending_responses) \cap {id} |-> o.pending_responses[x]])

\* What the handler step recorded in l makes of the orchestrator o.
HandlerResult(o, l) ==
    CASE l.op = "handle_proposal_submission" -> start_workflow(o, l.id)
      [] l.op = "handle_proposal_analysis_response" ->
           complete_analysis_stage(o, l.id, "proposal_analysis", TRUE, l.msg).orch
      [] l.op = "handle_voter_sentiment_response" ->
           LET r == complete_analysis_stage(o, l.id, "sentiment_analysis", TRUE, l.msg)
           IN IF l.raised THEN AppendError(r.orch, l.id, AttributeError) ELSE r.orch
      [] l.op = "handle_execution_response" ->
           LET r == complete_analysis_stage(o, l.id, "execution_planning", l.msg.success,
                                            l.msg)
           IN IF l.raised THEN AppendError(r.orch, l.id, AttributeError) ELSE r.orch
      [] OTHER -> o

\* The stage transitions stored for id are whole: stage and progress are
\* one of the four pairs, a stage's pending flag is set exactly when its
\* result is stored, and a completion flag is set only with both.
WholeTransitions(o, id) ==
    /\ <<o.workflows[id].current_stage, o.workflows[id].progress_percentage>>
          \in {<<"proposal_analysis", 10>>, <<"sentiment_analysis", 40>>,
               <<"execution_planning", 70>>, <<"completed", 100>>}
    /\ o.pending_responses[id]["proposal_analysis"]
          = Truthy(o.analysis_results[id].proposal_analysis)
    /\ o.pending_responses[id]["sentiment_analysis"]
          = Truthy(o.analysis_results[id].sentiment_prediction)
    /\ o.pending_responses[id]["execution_planning"]
          = Truthy(o.analysis_results[id].execution_plan)
    /\ o.workflows[id].analysis_complete => o.pending_responses[id]["proposal_analysis"]
    /\ o.workflows[id].sentiment_analysis_complete
          => o.pending_responses[id]["sentiment_analysis"]
    /\ o.workflows[id].execution_plan_ready => o.pending_responses[id]["execution_planning"]

====
